---- MODULE Spec2Model ----
(***************************************************************************)
(* The watchdog scheduler of lobsterd (startScheduler): the traffic loop,  *)
(* the idle loop, the cron wake timers, the per-tenant in-flight gate and  *)
(* stop(), together with the tenants' registry rows, the tap rx_bytes      *)
(* counters and the suspend/resume operations the scheduler awaits.        *)
(***************************************************************************)
EXTENDS Integers, Sequences, FiniteSets, TLC

VARIABLES
    running,      \* startScheduler: let running
    idleSince,    \* Map<string, number>: first-seen-idle timestamp per tenant
    cronTimers,   \* Map<string, Timeout>: the timer handle kept per tenant
    inFlight,     \* Set<string>: tenants with a suspend/resume under way
    trafficArmed, \* the trafficInterval handle is live
    idleArmed,    \* the idleInterval handle is live
    armed,        \* pending setTimeout callbacks of scheduleCronWake
    passes,       \* idle-loop invocations awaiting getActiveConnections
    ops,          \* runSuspend / runResume calls under way, per tenant
    registry,     \* registry.tenants: status and suspendInfo per tenant
    tap,          \* /sys/class/net/<tapDev>/statistics/rx_bytes per tenant
    now,          \* Date.now()
    emitted,      \* events the emitter published in the last step
    open,         \* per tenant, the start event not yet followed by its end
    dropped,      \* triggers refused in the last step
    replied       \* the getActiveConnections reply handled in the last step

vars == <<running, idleSince, cronTimers, inFlight, trafficArmed, idleArmed,
          armed, passes, ops, registry, tap, now, emitted, open, dropped, replied>>

\* The tenant lifecycle engine (spawn, evict, molt, suspend, resume) and what
\* it works on: the registry file and the tenants' live resources
VARIABLES
    rows,            \* registry.tenants: the row of each name, or NoRow
    nextUid,         \* registry.nextUid
    nextGatewayPort, \* registry.nextGatewayPort
    resources,       \* per name, the kinds of live resource that exist
    pidOf,           \* per name, the pid of its live VM process, or None
    jobs,            \* per name, the lifecycle operation under way, or NoJob
    everUid,         \* every uid a spawn has assigned
    everPort,        \* every gatewayPort a spawn has assigned
    result           \* what the operation that ended in the last step returned

lifeVars == <<rows, nextUid, nextGatewayPort, resources, pidOf, jobs, everUid,
              everPort, result>>

\* The host outside the scheduler and the lifecycle engine: what the other
\* commands and drivers work on
VARIABLES
    setup,           \* lobster init: the host it runs on and the run itself
    agent,           \* the in-guest agent of one tenant's VM (lobster-agent.mjs)
    drv,             \* what the drivers own: proxy routes, chroots, SSH key dirs
    listing,         \* lobster list: the registry it loads, the processes, its result
    chain,           \* the LOBSTER iptables chain and the last addFirewallBypass
    session,         \* one lobster logs session and the hold it keeps in the guest
    probe,           \* one waitForAgent call: its clock, its probes, its result
    tmap             \* nginx's tenant map file and the last updateTenantMap

hostVars == <<setup, agent, drv, listing, chain, session, probe, tmap>>

\* what the steps of one part leave alone
exceptSetup == <<vars, lifeVars, agent, drv, listing, chain, session, probe, tmap>>
exceptAgent == <<vars, lifeVars, setup, drv, listing, chain, session, probe, tmap>>
exceptDrv == <<vars, lifeVars, setup, agent, listing, chain, session, probe, tmap>>
exceptListing == <<vars, lifeVars, setup, agent, drv, chain, session, probe, tmap>>
exceptChain == <<vars, lifeVars, setup, agent, drv, listing, session, probe, tmap>>
exceptSession == <<vars, lifeVars, setup, agent, drv, listing, chain, probe, tmap>>
exceptProbe == <<vars, lifeVars, setup, agent, drv, listing, chain, session, tmap>>
exceptTmap == <<vars, lifeVars, setup, agent, drv, listing, chain, session, probe>>

\* ---------------------------------------------------------------- bounds
MaxTime == 3          \* the clock runs from 1 to MaxTime
MaxRx == 1            \* readable rx_bytes counters range over 1..MaxRx
MaxConn == 1          \* connection counts the agent reports: 0..MaxConn
MaxPasses == 1        \* idle-loop invocations awaiting a reply at once
IdleThreshold == 1    \* config.watchdog.idleThresholdMs, in clock units
RpcTimeout == 0       \* timeout of one vsock call, in clock units: shorter
                      \* than IdleThreshold (3-5 s against 60 s)
MaxSpawns == 3        \* spawns that reserve a uid and a port
MaxJobs == 1          \* lifecycle operations under way at once
MaxPid == 2           \* the OS hands out the pids 1..MaxPid
MaxLaunches == 2      \* gateway processes the agent spawns in one VM's life

\* ------------------------------------------------------------- constants
None == -1            \* an absent number (no idle mark, no nextWakeAtMs)
NoTimer == 0          \* no timer handle stored for the tenant
Unreadable == -1      \* the rx_bytes file cannot be read

Names == <<"alice", "bob">>                  \* registry.tenants, in order
Tenants == {Names[i] : i \in DOMAIN Names}
NoInfo == [present |-> FALSE, lastRxBytes |-> 0, nextWakeAtMs |-> None]

\* What the rx_bytes file holds. A counter at 0 and an unreadable file read
\* alike (ReadTapRxBytes), so the counters that are readable start at 1
TapValues == {Unreadable} \cup 1..MaxRx

\* ------------------------------------------------- the lifecycle's state
UidStart == 10000          \* DEFAULT_CONFIG.tenants.uidStart
GatewayPortStart == 9000   \* DEFAULT_CONFIG.tenants.gatewayPortStart
MaxRepairAttempts == 3     \* DEFAULT_CONFIG.watchdog.maxRepairAttempts
FirstCid == 3              \* cid = uid - uidStart + 3

LifeNames == {"alice", "bob"}

NoRow == [status |-> "absent", uid |-> 0, gatewayPort |-> 0, cid |-> 0, tapDev |-> "",
          ipAddress |-> 0, vmPid |-> None, suspendInfo |-> FALSE, attempts |-> 0]
NoJob == [op |-> "none", step |-> 0, error |-> "", rollback |-> FALSE, pid |-> None]
NoResult == [op |-> "none", tenant |-> "", ok |-> FALSE, error |-> "",
             actions |-> <<>>, healthy |-> FALSE]

EMPTY_REGISTRY ==
    [tenants |-> [n \in LifeNames |-> NoRow],
     nextUid |-> UidStart,
     nextGatewayPort |-> GatewayPortStart]

\* a host right after init: the empty registry, no tenant resource, no
\* operation under way
FreshHost ==
    /\ rows = EMPTY_REGISTRY.tenants
    /\ nextUid = EMPTY_REGISTRY.nextUid
    /\ nextGatewayPort = EMPTY_REGISTRY.nextGatewayPort
    /\ resources = [n \in LifeNames |-> {}]
    /\ pidOf = [n \in LifeNames |-> None]
    /\ jobs = [n \in LifeNames |-> NoJob]
    /\ everUid = {}
    /\ everPort = {}
    /\ result = NoResult

\* ------------------------------------------------ the rest of the host
\* runInit's mandatory checks, in the order it makes them
Checks == <<"linux", "root", "kvm", "firecracker", "jailer", "kernel", "rootfs">>

\* InitResult as runInit creates it (init.ts:169-180)
BlankResult ==
    [kvmAvailable |-> FALSE, firecrackerFound |-> FALSE, jailerFound |-> FALSE,
     kernelFound |-> FALSE, rootfsFound |-> FALSE, dirsCreated |-> FALSE,
     configCreated |-> FALSE, certsInstalled |-> FALSE,
     ipForwardingEnabled |-> FALSE, caddyConfigured |-> FALSE]

NoError == [code |-> "", message |-> ""]
NoFile == [exists |-> FALSE, content |-> ""]
NoRegistryFile ==
    [exists |-> FALSE,
     content |-> [tenants |-> <<>>, nextUid |-> 0, nextGatewayPort |-> 0]]

\* a host on which init has not been run: every check would pass, nothing
\* is installed
BareHost ==
    [env |-> [c \in {Checks[i] : i \in DOMAIN Checks} |-> TRUE],
     dirs |-> FALSE, config |-> NoFile, registryFile |-> NoRegistryFile,
     certs |-> FALSE, module |-> FALSE, ipForwarding |-> FALSE, caddy |-> "untouched",
     routes |-> {}, pc |-> 0, flags |-> BlankResult, returned |-> "none", error |-> NoError]

\* lobster-agent.mjs: the keys of secrets it looks at; a key maps to
\* "absent" when the object does not have it
SecretKeys == {"OPENCLAW_CONFIG", "OPENCLAW_GATEWAY_TOKEN"}
NoSecrets == [k \in SecretKeys |-> "absent"]
NoMessage == [type |-> "", token |-> "", secrets |-> NoSecrets, from |-> ""]

\* the agent right after startAgent: let gatewayProcess = null, secrets = {}
FreshAgent ==
    [secrets |-> NoSecrets, gatewayProcess |-> None, procs |-> {}, spawned |-> 0,
     killed |-> {}, configWritten |-> FALSE, poweroff |-> "no",
     request |-> NoMessage, response |-> "", hostOk |-> FALSE]

\* no tenant resource on the host, no driver called yet
NoCall == [driver |-> "", tenant |-> "", result |-> ""]
NoResources ==
    [routes |-> {},
     chroots |-> [n \in Tenants |-> "absent"],
     keys |-> [n \in Tenants |-> "absent"],
     call |-> NoCall]

\* lobster list has not been run; the registry is empty
NoListing ==
    [tenants |-> <<>>, live |-> {}, root |-> TRUE, loadable |-> TRUE,
     returned |-> "none", entries |-> <<>>]

\* the LOBSTER chain does not exist yet; addFirewallBypass has not been called
NoChain ==
    [exists |-> FALSE, rules |-> <<>>, returned |-> "none", last |-> "none",
     insertedInto |-> <<>>]

\* no lobster logs session
NoSession ==
    [pc |-> "idle", tty |-> FALSE, clock |-> 0, keepalive |-> None,
     inflight |-> 0, expiry |-> None, requested |-> {}, released |-> FALSE,
     code |-> None]

\* waitForAgent has not been called
NoProbe ==
    [pc |-> "idle", timeoutMs |-> 0, start |-> 0, clock |-> 0, probes |-> 0,
     lastExit |-> None, result |-> "none"]

\* Each part of the host is moved by its own specification only; the other
\* specifications leave it out
Off == "off"
SetupIdle == setup = Off
AgentIdle == agent = Off
DrvIdle == drv = Off
ListingIdle == listing = Off
ChainIdle == chain = Off
SessionIdle == session = Off
ProbeIdle == probe = Off
TmapIdle == tmap = Off

HostIdle ==
    /\ SetupIdle
    /\ AgentIdle
    /\ DrvIdle
    /\ ListingIdle
    /\ ChainIdle
    /\ SessionIdle
    /\ ProbeIdle
    /\ TmapIdle

\* the lifecycle engine left out
LifeIdle ==
    /\ rows = Off /\ nextUid = Off /\ nextGatewayPort = Off
    /\ resources = Off /\ pidOf = Off /\ jobs = Off
    /\ everUid = Off /\ everPort = Off /\ result = Off

\* every part but one left out
HostIdleBut(part) ==
    /\ IF part = "setup" THEN TRUE ELSE SetupIdle
    /\ IF part = "agent" THEN TRUE ELSE AgentIdle
    /\ IF part = "drv" THEN TRUE ELSE DrvIdle
    /\ IF part = "listing" THEN TRUE ELSE ListingIdle
    /\ IF part = "chain" THEN TRUE ELSE ChainIdle
    /\ IF part = "session" THEN TRUE ELSE SessionIdle
    /\ IF part = "probe" THEN TRUE ELSE ProbeIdle
    /\ IF part = "tmap" THEN TRUE ELSE TmapIdle

\* ----------------------------------------------------------- pure helpers
\* readTapRxBytes: parseInt(raw.trim(), 10) || 0, and 0 when the read throws
ReadTapRxBytes(raw) == IF raw = Unreadable THEN 0 ELSE raw

\* !tenant.suspendInfo?.nextWakeAtMs is false: the field is present and truthy
HasWake(si) == si.present /\ si.nextWakeAtMs # None /\ si.nextWakeAtMs # 0

RemoveAt(seq, i) == [j \in 1..(Len(seq) - 1) |-> IF j < i THEN seq[j] ELSE seq[j + 1]]

Event(type, name, trigger, wake) ==
    [type |-> type, tenant |-> name, trigger |-> trigger, nextWakeAtMs |-> wake,
     error |-> ""]

\* emitter.emit("suspend-failed" | "resume-failed", {tenant, error})
Failure(type, name, error) == [Event(type, name, "", None) EXCEPT !.error = error]

\* The scheduler's closure state, as the handlers read and write it
Cur == [running |-> running, idleSince |-> idleSince, cronTimers |-> cronTimers,
        inFlight |-> inFlight, trafficArmed |-> trafficArmed, idleArmed |-> idleArmed,
        armed |-> armed, ops |-> ops, emitted |-> <<>>, dropped |-> {},
        replied |-> <<>>]

\* What a listener of the emitter keeps of the events evs: per tenant the
\* operation whose start event has had no complete or failed event yet
IsStart(e) == e.type \in {"suspend-start", "resume-start"}
Kind(e) == IF e.type \in {"suspend-start", "suspend-complete", "suspend-failed"}
           THEN "suspend" ELSE "resume"

RECURSIVE OpenAfter(_, _)
OpenAfter(o, evs) ==
    IF evs = <<>> THEN o
    ELSE LET e == Head(evs)
         IN OpenAfter([o EXCEPT ![e.tenant] = IF IsStart(e) THEN Kind(e) ELSE "none"],
                      Tail(evs))

Install(s) ==
    /\ running' = s.running
    /\ idleSince' = s.idleSince
    /\ cronTimers' = s.cronTimers
    /\ inFlight' = s.inFlight
    /\ trafficArmed' = s.trafficArmed
    /\ idleArmed' = s.idleArmed
    /\ armed' = s.armed
    /\ ops' = s.ops
    /\ emitted' = s.emitted
    /\ open' = OpenAfter(open, s.emitted)
    /\ dropped' = s.dropped
    /\ replied' = s.replied
    /\ UNCHANGED <<lifeVars, hostVars>>

\* a step of the environment: the scheduler's code does not run
Quiet ==
    /\ emitted' = <<>>
    /\ dropped' = {}
    /\ replied' = <<>>
    /\ UNCHANGED <<running, idleSince, cronTimers, inFlight, trafficArmed, idleArmed,
                   armed, ops, open>>
    /\ UNCHANGED <<lifeVars, hostVars>>

\* ------------------------------------------------------------ the handlers
\* mutant: clearCronTimer forgetting the handle without clearTimeout
clearCronTimer_KeepsTimer(s, name) ==
    IF s.cronTimers[name] # NoTimer
    THEN [s EXCEPT !.cronTimers[name] = NoTimer]
    ELSE s

clearCronTimer(s, name) ==
    IF s.cronTimers[name] # NoTimer
    THEN [s EXCEPT !.armed = {x \in @ : x.id # s.cronTimers[name]},
                   !.cronTimers[name] = NoTimer]
    ELSE s

\* a timer handle no live reference holds
FreshTimer(s) ==
    CHOOSE i \in 1..(Cardinality(s.armed) + Len(Names) + 1) :
        /\ \A x \in s.armed : x.id # i
        /\ \A n \in Tenants : s.cronTimers[n] # i

\* mutant: triggerResume without the in-flight gate
triggerResume_NoGate(s, name, trigger) ==
    IF ~s.running
    THEN [s EXCEPT !.dropped = @ \cup {<<"resume", name>>}]
    ELSE [s EXCEPT !.inFlight = @ \cup {name},
                   !.emitted = Append(@, Event("resume-start", name, trigger, None)),
                   !.ops[name] = Append(@, [kind |-> "resume", rx0 |-> 0])]

triggerResume(s, name, trigger) ==
    IF ~s.running \/ name \in s.inFlight
    THEN [s EXCEPT !.dropped = @ \cup {<<"resume", name>>}]
    ELSE [s EXCEPT !.inFlight = @ \cup {name},
                   !.emitted = Append(@, Event("resume-start", name, trigger, None)),
                   !.ops[name] = Append(@, [kind |-> "resume", rx0 |-> 0])]

\* mutant: triggerSuspend without the in-flight gate
triggerSuspend_NoGate(s, name) ==
    IF ~s.running
    THEN [s EXCEPT !.dropped = @ \cup {<<"suspend", name>>}]
    ELSE [s EXCEPT !.inFlight = @ \cup {name},
                   !.emitted = Append(@, Event("suspend-start", name, "", None)),
                   !.ops[name] = Append(@, [kind |-> "suspend",
                                            rx0 |-> ReadTapRxBytes(tap[name])])]

\* mutant: triggerSuspend without the running check
triggerSuspend_NoRunning(s, name) ==
    IF name \in s.inFlight
    THEN [s EXCEPT !.dropped = @ \cup {<<"suspend", name>>}]
    ELSE [s EXCEPT !.inFlight = @ \cup {name},
                   !.emitted = Append(@, Event("suspend-start", name, "", None)),
                   !.ops[name] = Append(@, [kind |-> "suspend",
                                            rx0 |-> ReadTapRxBytes(tap[name])])]

triggerSuspend(s, name) ==
    IF ~s.running \/ name \in s.inFlight
    THEN [s EXCEPT !.dropped = @ \cup {<<"suspend", name>>}]
    ELSE [s EXCEPT !.inFlight = @ \cup {name},
                   !.emitted = Append(@, Event("suspend-start", name, "", None)),
                   !.ops[name] = Append(@, [kind |-> "suspend",
                                            rx0 |-> ReadTapRxBytes(tap[name])])]

scheduleCronWake(s, name, si, t) ==
    IF ~HasWake(si) THEN s
    ELSE LET s1 == clearCronTimer(s, name)
             delay == si.nextWakeAtMs - t
         IN IF delay <= 0
            THEN triggerResume(s1, name, "cron")
            ELSE LET h == FreshTimer(s1)
                 IN [s1 EXCEPT !.armed = @ \cup {[id |-> h, name |-> name,
                                                  at |-> si.nextWakeAtMs]},
                               !.cronTimers[name] = h]

\* mutant: the traffic loop comparing with >= instead of >
RECURSIVE trafficLoop_Geq(_, _)
trafficLoop_Geq(s, i) ==
    IF i > Len(Names) THEN s
    ELSE LET name == Names[i]
             t == registry[name]
         IN IF t.status # "suspended" \/ ~t.suspendInfo.present
            THEN trafficLoop_Geq(s, i + 1)
            ELSE IF name \in s.inFlight
            THEN trafficLoop_Geq(s, i + 1)
            ELSE IF ReadTapRxBytes(tap[name]) >= t.suspendInfo.lastRxBytes
            THEN trafficLoop_Geq(triggerResume(s, name, "traffic"), i + 1)
            ELSE trafficLoop_Geq(s, i + 1)

\* trafficInterval's for loop from registry index i on (it runs without an await)
RECURSIVE trafficLoop(_, _)
trafficLoop(s, i) ==
    IF i > Len(Names) THEN s
    ELSE LET name == Names[i]
             t == registry[name]
         IN IF t.status # "suspended" \/ ~t.suspendInfo.present
            THEN trafficLoop(s, i + 1)
            ELSE IF name \in s.inFlight
            THEN trafficLoop(s, i + 1)
            ELSE IF ReadTapRxBytes(tap[name]) > t.suspendInfo.lastRxBytes
            THEN trafficLoop(triggerResume(s, name, "traffic"), i + 1)
            ELSE trafficLoop(s, i + 1)

\* idleInterval's for loop from registry index i up to its next await:
\* at = the index whose getActiveConnections it awaits, 0 when the loop ended
RECURSIVE idleLoop(_, _)
idleLoop(s, i) ==
    IF i > Len(Names) THEN [st |-> s, at |-> 0]
    ELSE LET name == Names[i]
         IN IF registry[name].status # "active"
            THEN idleLoop([s EXCEPT !.idleSince[name] = None], i + 1)
            ELSE IF name \in s.inFlight
            THEN idleLoop(s, i + 1)
            ELSE [st |-> s, at |-> i]

\* mutant: a zero count suspends at once, whatever the age of the idle mark
idleReply_NoThreshold(s, name, conn, t) ==
    LET connections == IF conn # None THEN conn ELSE -1
    IN IF connections = 0
       THEN LET s1 == IF s.idleSince[name] = None
                      THEN [s EXCEPT !.idleSince[name] = t] ELSE s
            IN triggerSuspend(s1, name)
       ELSE IF connections > 0
       THEN [s EXCEPT !.idleSince[name] = None]
       ELSE s

\* mutant: a failed call counts as zero connections
idleReply_FailIsZero(s, name, conn, t) ==
    LET connections == IF conn # None THEN conn ELSE 0
    IN IF connections = 0
       THEN LET s1 == IF s.idleSince[name] = None
                      THEN [s EXCEPT !.idleSince[name] = t] ELSE s
                idleMs == t - s1.idleSince[name]
            IN IF idleMs >= IdleThreshold THEN triggerSuspend(s1, name) ELSE s1
       ELSE IF connections > 0
       THEN [s EXCEPT !.idleSince[name] = None]
       ELSE s

\* idleInterval after the await: lines 218-232 for the tenant that answered.
\* conn is the reply: a count, or None when the call failed
idleReply(s, name, conn, t) ==
    LET connections == IF conn # None THEN conn ELSE -1
    IN IF connections = 0
       THEN LET s1 == IF s.idleSince[name] = None
                      THEN [s EXCEPT !.idleSince[name] = t] ELSE s
                idleMs == t - s1.idleSince[name]
            IN IF idleMs >= IdleThreshold THEN triggerSuspend(s1, name) ELSE s1
       ELSE IF connections > 0
       THEN [s EXCEPT !.idleSince[name] = None]
       ELSE s

\* runSuspend(name): needs status active; records the rx_bytes it read when
\* it started and the next cron wake, and marks the row suspended. A failure
\* leaves the registry as it was and carries its error
runSuspend(reg, name, rx0, ok, wake) ==
    IF reg[name].status # "active"
    THEN [ok |-> FALSE, wake |-> None, reg |-> reg, error |-> "tenant is not active"]
    ELSE IF ~ok
    THEN [ok |-> FALSE, wake |-> None, reg |-> reg, error |-> "suspend step failed"]
    ELSE [ok |-> TRUE, wake |-> wake, error |-> "",
          reg |-> [reg EXCEPT ![name] =
                     [status |-> "suspended",
                      suspendInfo |-> [present |-> TRUE, lastRxBytes |-> rx0,
                                       nextWakeAtMs |-> wake]]]]

\* runResume(name): needs status suspended; clears suspendInfo and marks the
\* row active
runResume(reg, name, ok) ==
    IF reg[name].status # "suspended"
    THEN [ok |-> FALSE, reg |-> reg, error |-> "tenant is not suspended"]
    ELSE IF ~ok
    THEN [ok |-> FALSE, reg |-> reg, error |-> "resume step failed"]
    ELSE [ok |-> TRUE, error |-> "",
          reg |-> [reg EXCEPT ![name] = [status |-> "active", suspendInfo |-> NoInfo]]]

\* mutant: a failed suspend returns before the tenant leaves the in-flight set
suspendSettled_FailureKeepsSlot(s, name, r, t) ==
    IF r.ok
    THEN LET e == [s EXCEPT !.emitted =
                      Append(@, Event("suspend-complete", name, "", r.wake))]
             c == scheduleCronWake(e, name, r.reg[name].suspendInfo, t)
         IN [c EXCEPT !.idleSince[name] = None, !.inFlight = @ \ {name}]
    ELSE [s EXCEPT !.emitted = Append(@, Failure("suspend-failed", name, r.error))]

\* the continuation of triggerSuspend after runSuspend settled with r
\* (lines 169-186); r.reg is the registry the lookup of line 175 reads
suspendSettled(s, name, r, t) ==
    LET s1 == IF r.ok
              THEN LET e == [s EXCEPT !.emitted =
                                Append(@, Event("suspend-complete", name, "", r.wake))]
                       c == scheduleCronWake(e, name, r.reg[name].suspendInfo, t)
                   IN [c EXCEPT !.idleSince[name] = None]
              ELSE [s EXCEPT !.emitted = Append(@, Failure("suspend-failed", name, r.error))]
    IN [s1 EXCEPT !.inFlight = @ \ {name}]

\* mutant: a failed resume frees the tenant without publishing resume-failed
resumeSettled_SilentFailure(s, name, r) ==
    LET s1 == IF r.ok
              THEN LET e == [s EXCEPT !.emitted =
                                Append(@, Event("resume-complete", name, "", None))]
                       c == clearCronTimer(e, name)
                   IN [c EXCEPT !.idleSince[name] = None]
              ELSE s
    IN [s1 EXCEPT !.inFlight = @ \ {name}]

\* the continuation of triggerResume after runResume settled with r
\* (lines 147-160)
resumeSettled(s, name, r) ==
    LET s1 == IF r.ok
              THEN LET e == [s EXCEPT !.emitted =
                                Append(@, Event("resume-complete", name, "", None))]
                       c == clearCronTimer(e, name)
                   IN [c EXCEPT !.idleSince[name] = None]
              ELSE [s EXCEPT !.emitted = Append(@, Failure("resume-failed", name, r.error))]
    IN [s1 EXCEPT !.inFlight = @ \ {name}]

\* stop(): lines 244-252
stop(s) ==
    [s EXCEPT !.running = FALSE,
              !.trafficArmed = FALSE,
              !.idleArmed = FALSE,
              !.armed = {x \in @ : \A n \in Tenants : s.cronTimers[n] # x.id},
              !.cronTimers = [n \in Tenants |-> NoTimer]]

\* the cron timer's callback: lines 129-134
cronFired(s, x) ==
    LET s1 == [s EXCEPT !.armed = @ \ {x}, !.cronTimers[x.name] = NoTimer]
    IN IF s1.running THEN triggerResume(s1, x.name, "cron") ELSE s1

\* the initialisation loop for already-suspended tenants: lines 237-241
RECURSIVE cronInit(_, _, _, _)
cronInit(s, reg, i, t) ==
    IF i > Len(Names) THEN s
    ELSE LET name == Names[i]
         IN IF reg[name].status = "suspended" /\ reg[name].suspendInfo.present
            THEN cronInit(scheduleCronWake(s, name, reg[name].suspendInfo, t), reg, i + 1, t)
            ELSE cronInit(s, reg, i + 1, t)

\* ------------------------------------------------------- the await queue
\* passes is kept ordered by (at, sentAt): the order of the entries carries
\* no meaning, any awaited call may settle next
PassLeq(a, b) == a.at < b.at \/ (a.at = b.at /\ a.sentAt <= b.sentAt)

RECURSIVE InsertPass(_, _)
InsertPass(q, p) ==
    IF q = <<>> THEN <<p>>
    ELSE IF PassLeq(p, Head(q)) THEN <<p>> \o q
    ELSE <<Head(q)>> \o InsertPass(Tail(q), p)

Await(q, r, t) == IF r.at = 0 THEN q ELSE InsertPass(q, [at |-> r.at, sentAt |-> t])

\* ------------------------------------------------------------ Init
\* The registries the scheduler is started on: a row has suspendInfo iff it
\* is suspended; a suspended row's cron wake is absent, already due or ahead
Suspended(wake) ==
    [status |-> "suspended",
     suspendInfo |-> [present |-> TRUE, lastRxBytes |-> MaxRx, nextWakeAtMs |-> wake]]

Row(status) == [status |-> status, suspendInfo |-> NoInfo]

StartRegistries ==
    { [n \in Tenants |-> IF n = Names[1] THEN a ELSE b] :
        a \in {Row("active")} \cup {Suspended(w) : w \in {None, 1, 2}},
        b \in {Row("active"), Row("degraded"), Suspended(None)} }

Blank ==
    [running |-> TRUE,
     idleSince |-> [n \in Tenants |-> None],
     cronTimers |-> [n \in Tenants |-> NoTimer],
     inFlight |-> {},
     trafficArmed |-> TRUE,
     idleArmed |-> TRUE,
     armed |-> {},
     ops |-> [n \in Tenants |-> <<>>],
     emitted |-> <<>>,
     dropped |-> {},
     replied |-> <<>>]

\* startScheduler: lines 96-241
Init ==
    /\ now = 1
    /\ registry \in StartRegistries
    /\ tap = [n \in Tenants |-> MaxRx]
    /\ passes = <<>>
    /\ LET s == cronInit(Blank, registry, 1, 1)
       IN /\ running = s.running
          /\ idleSince = s.idleSince
          /\ cronTimers = s.cronTimers
          /\ inFlight = s.inFlight
          /\ trafficArmed = s.trafficArmed
          /\ idleArmed = s.idleArmed
          /\ armed = s.armed
          /\ ops = s.ops
          /\ emitted = s.emitted
          /\ open = OpenAfter([n \in Tenants |-> "none"], s.emitted)
          /\ dropped = s.dropped
          /\ replied = s.replied
    /\ LifeIdle
    /\ HostIdle

\* ------------------------------------------------------------ actions
TrafficTick ==
    /\ trafficArmed
    /\ Install(IF ~running THEN Cur ELSE trafficLoop(Cur, 1))
    /\ UNCHANGED <<passes, registry, tap, now>>

IdleTick ==
    /\ idleArmed
    /\ Len(passes) < MaxPasses
    /\ LET r == IF ~running THEN [st |-> Cur, at |-> 0] ELSE idleLoop(Cur, 1)
       IN /\ Install(r.st)
          /\ passes' = Await(passes, r, now)
    /\ UNCHANGED <<registry, tap, now>>

\* getActiveConnections settles for the pass at position k with reply conn
IdleReply(k, conn) ==
    /\ k \in DOMAIN passes
    /\ LET p == passes[k]
           s1 == idleReply(Cur, Names[p.at], conn, now)
           r == idleLoop(s1, p.at + 1)
       IN /\ Install([r.st EXCEPT !.replied = <<Names[p.at], conn>>])
          /\ passes' = Await(RemoveAt(passes, k), r, now)
    /\ UNCHANGED <<registry, tap, now>>

CronFire(x) ==
    /\ x \in armed
    /\ now >= x.at
    /\ Install(cronFired(Cur, x))
    /\ UNCHANGED <<passes, registry, tap, now>>

Stop ==
    /\ Install(stop(Cur))
    /\ UNCHANGED <<passes, registry, tap, now>>

\* the oldest runSuspend(name) under way settles and triggerSuspend goes on
\* after its await
SuspendSettle(name, ok, wake) ==
    /\ ops[name] # <<>>
    /\ Head(ops[name]).kind = "suspend"
    /\ LET r == runSuspend(registry, name, Head(ops[name]).rx0, ok, wake)
           s == [Cur EXCEPT !.ops[name] = Tail(@)]
       IN /\ Install(suspendSettled(s, name, r, now))
          /\ registry' = r.reg
    /\ UNCHANGED <<passes, tap, now>>

\* the oldest runResume(name) under way settles and triggerResume goes on
\* after its await
ResumeSettle(name, ok) ==
    /\ ops[name] # <<>>
    /\ Head(ops[name]).kind = "resume"
    /\ LET r == runResume(registry, name, ok)
           s == [Cur EXCEPT !.ops[name] = Tail(@)]
       IN /\ Install(resumeSettled(s, name, r))
          /\ registry' = r.reg
    /\ UNCHANGED <<passes, tap, now>>

\* the tap's rx_bytes counter changes: traffic, a wraparound, a reset, or the
\* device going away
RxChange(name, v) ==
    /\ v # tap[name]
    /\ tap' = [tap EXCEPT ![name] = v]
    /\ Quiet
    /\ UNCHANGED <<passes, registry, now>>

\* the clock advances; an awaited vsock call settles within RpcTimeout
Tick ==
    /\ now < MaxTime
    /\ \A k \in DOMAIN passes : passes[k].sentAt + RpcTimeout > now
    /\ now' = now + 1
    /\ Quiet
    /\ UNCHANGED <<passes, registry, tap>>

Next ==
    \/ TrafficTick
    \/ IdleTick
    \/ \E k \in 1..MaxPasses, conn \in {None} \cup 0..MaxConn : IdleReply(k, conn)
    \/ \E x \in armed : CronFire(x)
    \/ Stop
    \/ \E name \in Tenants, ok \in BOOLEAN, wake \in {None, now, now + 1} :
           SuspendSettle(name, ok, wake)
    \/ \E name \in Tenants, ok \in BOOLEAN : ResumeSettle(name, ok)
    \/ \E name \in Tenants, v \in TapValues : RxChange(name, v)
    \/ Tick

Spec == Init /\ [][Next]_vars

\* ============================================================ the claims
StartsFor(evs, n) == Len(SelectSeq(evs, LAMBDA e : IsStart(e) /\ e.tenant = n))
Began(n) == Len(ops'[n]) > Len(ops[n])

\* C1: the scheduler never has two suspend/resume operations under way for
\* the same tenant: a trigger starts the operation only when the tenant is not
\* in the in-flight set, and the tenant stays in the set from the operation's
\* start until the operation has completed.
C1_NoOverlap ==
    /\ [](\A n \in Tenants : Len(ops[n]) <= 1 /\ (ops[n] # <<>> => n \in inFlight))
    /\ [][\A n \in Tenants : Began(n) => n \notin inFlight /\ n \in inFlight']_vars

\* C1 witness: a trigger found its tenant in flight while the scheduler was
\* running, and that tenant's operation is still the only one under way
C1_Witness ==
    \E n \in Tenants :
        /\ running
        /\ Len(ops[n]) = 1
        /\ \E d \in dropped : d[2] = n

\* C2: per tenant the events are serialized: a start event is published only
\* when no earlier start of that tenant is still open, and a complete or
\* failed event only for the operation whose start is open, which it closes;
\* and while a start is open its one operation is under way, so that the
\* operation's settling publishes the one event that closes it.
RECURSIVE Serial(_, _)
Serial(o, evs) ==
    IF evs = <<>> THEN TRUE
    ELSE LET e == Head(evs)
         IN /\ IF IsStart(e) THEN o[e.tenant] = "none" ELSE o[e.tenant] = Kind(e)
            /\ Serial(OpenAfter(o, <<e>>), Tail(evs))

C2_Serialized ==
    /\ [][Serial(open, emitted')]_vars
    /\ [](\A n \in Tenants :
            IF open[n] = "none" THEN ops[n] = <<>>
            ELSE Len(ops[n]) = 1 /\ Head(ops[n]).kind = open[n])

\* C2 witness: a suspend has started and completed, and a resume of the same
\* tenant has started after it
C2_Witness ==
    \E n \in Tenants :
        /\ registry[n].status = "suspended"
        /\ open[n] = "resume"
        /\ \E i \in DOMAIN emitted : emitted[i].type = "resume-start"
        /\ registry[n].suspendInfo.lastRxBytes = 0

\* C3: a trigger that finds its tenant in flight changes nothing: no event,
\* no operation, the in-flight set, the idle marks and the cron timers as they
\* were; and no step in which such a trigger ran starts an operation of that
\* tenant.
SameButDropped(a, b) == [a EXCEPT !.dropped = {}] = [b EXCEPT !.dropped = {}]

C3_DroppedSilently ==
    /\ [](\A n \in inFlight :
            /\ SameButDropped(triggerSuspend(Cur, n), Cur)
            /\ \A trig \in {"traffic", "cron", "manual"} :
                   SameButDropped(triggerResume(Cur, n, trig), Cur))
    /\ [][\A d \in dropped' :
            d[2] \in inFlight => StartsFor(emitted', d[2]) = 0 /\ ~Began(d[2])]_vars

\* C3 witness: while the scheduler runs, a trigger was refused for a tenant
\* that is in flight
C3_Witness ==
    /\ running
    /\ \E d \in dropped : d[2] \in inFlight

\* C4: once stop() has run, the scheduler stays stopped, publishes no start
\* event and starts no operation.
C4_StoppedRefuses ==
    [][~running => /\ ~running'
                   /\ \A n \in Tenants : StartsFor(emitted', n) = 0 /\ ~Began(n)]_vars

\* C4 witness: after stop() an idle pass that was awaiting its reply asked for
\* a suspend of a tenant that is not in flight, and was refused
C4_Witness ==
    /\ ~running
    /\ \E d \in dropped : d[1] = "suspend" /\ d[2] \notin inFlight

\* C5 (as claimed): when stop() has returned the in-flight set is empty.
C5_StopWaits == ~running => inFlight = {}

\* C6 (as claimed): once stop() has run no traffic, idle or cron timer is
\* armed, then or later.
C6_StopCancelsTimers == ~running => ~trafficArmed /\ ~idleArmed /\ armed = {}

\* C7: suspend-start is published only by the idle loop handling a reply of 0
\* connections for a tenant that is active, not in flight and whose idle mark
\* is at least IdleThreshold old; a reply with a count above 0 clears the
\* mark, and a reply of 0 without a mark sets it to the current time.
SuspendStarted(n) ==
    \E i \in DOMAIN emitted' : emitted'[i] = Event("suspend-start", n, "", None)

C8_UnreachableKeepsMark ==
    [][replied' # <<>> /\ replied'[2] = None =>
            LET n == replied'[1]
            IN /\ idleSince'[n] = idleSince[n]
               /\ StartsFor(emitted', n) = 0
               /\ ~Began(n)]_vars

\* C8 witness: a failed reply was handled for a tenant whose idle mark is old
\* enough for a suspend, and the mark is still there
C8_Witness ==
    /\ replied # <<>>
    /\ replied[2] = None
    /\ idleSince[replied[1]] # None
    /\ now - idleSince[replied[1]] >= IdleThreshold
    /\ running
    /\ replied[1] \notin inFlight

\* C9: a traffic tick of the running scheduler starts resume(name, "traffic")
\* for exactly the tenants that are suspended, not in flight and whose
\* rx_bytes is strictly above suspendInfo.lastRxBytes; nothing else starts a
\* resume with trigger traffic.
TrafficStart(n) ==
    \E i \in DOMAIN emitted' : emitted'[i] = Event("resume-start", n, "traffic", None)

RxAbove(n) ==
    /\ registry[n].status = "suspended"
    /\ n \notin inFlight
    /\ ReadTapRxBytes(tap[n]) > registry[n].suspendInfo.lastRxBytes

C9_TrafficResume ==
    [][/\ TrafficTick => \A n \in Tenants : TrafficStart(n) <=> (running /\ RxAbove(n))
       /\ (\E n \in Tenants : TrafficStart(n)) => TrafficTick]_vars

\* C9 witness: a tenant the scheduler suspended has been resumed on traffic
C9_Witness ==
    \E n \in Tenants :
        /\ emitted = <<Event("resume-start", n, "traffic", None)>>
        /\ registry[n].suspendInfo.lastRxBytes < MaxRx

\* C10 (as claimed): a traffic tick that reads an rx_bytes below lastRxBytes
\* starts no resume and sets lastRxBytes to the value read.
RxBelow(n) ==
    /\ registry[n].status = "suspended"
    /\ n \notin inFlight
    /\ ReadTapRxBytes(tap[n]) < registry[n].suspendInfo.lastRxBytes

C10_WrapResets ==
    [][TrafficTick /\ running =>
          \A n \in Tenants :
              RxBelow(n) =>
                  /\ ~TrafficStart(n)
                  /\ registry'[n].suspendInfo.lastRxBytes = ReadTapRxBytes(tap[n])]_vars

\* C11 (as claimed): a suspend the running scheduler completes with a
\* nextWakeAtMs leaves a timer armed for that tenant at nextWakeAtMs or, when
\* that time has already passed, starts the cron resume at once.
SuspendCompleted(n, w) ==
    \E i \in DOMAIN emitted' : emitted'[i] = Event("suspend-complete", n, "", w)

CronStart(n) ==
    \E i \in DOMAIN emitted' : emitted'[i] = Event("resume-start", n, "cron", None)

C11_CronRearmed ==
    [][\A n \in Tenants :
         running /\ SuspendCompleted(n, registry'[n].suspendInfo.nextWakeAtMs)
                 /\ HasWake(registry'[n].suspendInfo) =>
             \/ \E x \in armed' : /\ x.name = n
                                  /\ x.at = registry'[n].suspendInfo.nextWakeAtMs
                                  /\ cronTimers'[n] = x.id
             \/ CronStart(n)]_vars

\* C12: a failed suspend or resume publishes its failed event with the
\* operation's error, frees the tenant's slot in the in-flight set and leaves
\* the scheduler as it was otherwise (running flag, timers, idle marks, the
\* other tenants' slots); a running scheduler then accepts a new trigger for
\* that tenant.
FailedOf(e) == e.type \in {"suspend-failed", "resume-failed"}

Accepts(n) ==
    /\ triggerSuspend(Cur, n).emitted = <<Event("suspend-start", n, "", None)>>
    /\ \A trig \in {"traffic", "cron", "manual"} :
           triggerResume(Cur, n, trig).emitted = <<Event("resume-start", n, trig, None)>>

C12_FailureDoesNotHalt ==
    /\ [][\A n \in Tenants :
            (ops[n] # <<>> /\ ops'[n] = <<>> /\ registry'[n] = registry[n]) =>
                /\ emitted' \in {<<Failure(Head(ops[n]).kind \o "-failed", n, err)>> :
                                    err \in {"tenant is not active", "suspend step failed",
                                             "tenant is not suspended", "resume step failed"}}
                /\ inFlight' = inFlight \ {n}
                /\ running' = running
                /\ trafficArmed' = trafficArmed /\ idleArmed' = idleArmed
                /\ armed' = armed /\ cronTimers' = cronTimers
                /\ idleSince' = idleSince]_vars
    /\ [](\A i \in DOMAIN emitted :
            FailedOf(emitted[i]) =>
                /\ emitted[i].error # ""
                /\ emitted[i].tenant \notin inFlight
                /\ running => Accepts(emitted[i].tenant))

\* C12 witness: a suspend has just failed for a tenant that is still active
\* and idle, while the scheduler runs and the idle timer is armed
C12_Witness ==
    \E n \in Tenants :
        /\ emitted = <<Failure("suspend-failed", n, "suspend step failed")>>
        /\ running /\ idleArmed
        /\ registry[n].status = "active"
        /\ idleSince[n] # None
        /\ \E m \in Tenants \ {n} : m \in inFlight

\* ------------------------------------------------------------ fairness
\* Armed interval timers fire, due cron timers fire, and awaited calls settle
FairSpec ==
    /\ Spec
    /\ WF_vars(TrafficTick)
    /\ WF_vars(IdleTick)
    /\ WF_vars(\E k \in 1..MaxPasses, conn \in {None} \cup 0..MaxConn : IdleReply(k, conn))
    /\ WF_vars(\E x \in armed : CronFire(x))
    /\ WF_vars(\E name \in Tenants, ok \in BOOLEAN, wake \in {None, now, now + 1} :
                   SuspendSettle(name, ok, wake))
    /\ WF_vars(\E name \in Tenants, ok \in BOOLEAN : ResumeSettle(name, ok))

\* C13 (as claimed): failed attempts on a tenant are bounded: either they
\* cease, or the tenant's status becomes degraded.
FailedStep(n) ==
    \E i \in DOMAIN emitted' : FailedOf(emitted'[i]) /\ emitted'[i].tenant = n

C13_FailuresBounded ==
    \A n \in Tenants :
        <>[][~FailedStep(n)]_vars \/ <>(registry[n].status = "degraded")

\* ================================================== the lifecycle engine
\* spawn's steps 2..9 and what each creates and fails with
Creates == <<"dataset", "tap", "ssh", "chroot", "vm", "none", "none", "route">>
StepError == <<"ZfsError", "NetworkSetupFailed", "ExecFailed", "JailerSetupFailed",
               "ExecFailed", "AgentTimeout", "VsockConnectFailed", "ProxyError">>
LastCreateStep == 9
ActivateStep == 10

\* evict's teardown order and what each step fails with
Teardown == <<"route", "vm", "tap", "chroot", "dataset", "ssh">>
TeardownError == <<"ProxyError", "ExecFailed", "FirewallError", "ExecFailed",
                   "ZfsError", "ExecFailed">>

\* the resources a tenant of the given status declares, in molt's order
CheckOrder == <<"dataset", "tap", "ssh", "chroot", "vm", "route">>

Declared(status) ==
    CASE status \in {"active", "initializing"} ->
             {"dataset", "tap", "ssh", "chroot", "vm", "route"}
      [] status = "suspended" -> {"dataset", "tap", "ssh", "chroot"}
      [] OTHER -> {}

\* the name molt reports for the repair of a resource
ActionName(kind) == IF kind = "route" THEN "proxy-route" ELSE kind

JobCount == Cardinality({n \in LifeNames : jobs[n] # NoJob})
LivePids == {pidOf[n] : n \in LifeNames} \ {None}
Pids == 1..MaxPid

\* mutant: every tenant is given the first vsock context id
Reserve_SharedCid(name, uid, port) ==
    [status |-> "initializing", uid |-> uid, gatewayPort |-> port,
     cid |-> FirstCid, tapDev |-> "tap-" \o name,
     ipAddress |-> 4 * (uid - UidStart) + 1, vmPid |-> None, suspendInfo |-> FALSE,
     attempts |-> 0]

\* spawn step 1: uid = nextUid++, gatewayPort = nextGatewayPort++,
\* cid = uid - uidStart + 3, tapDev = "tap-<name>", the tenant's /30
Reserve(name, uid, port) ==
    [status |-> "initializing", uid |-> uid, gatewayPort |-> port,
     cid |-> uid - UidStart + FirstCid, tapDev |-> "tap-" \o name,
     ipAddress |-> 4 * (uid - UidStart) + 1, vmPid |-> None, suspendInfo |-> FALSE,
     attempts |-> 0]

Returned(op, name, ok, error) ==
    [op |-> op, tenant |-> name, ok |-> ok, error |-> error, actions |-> <<>>,
     healthy |-> FALSE]

\* mutant: the reservation takes the lowest uid and port no row holds
SpawnReserve_LowestFree(name) ==
    /\ rows[name] = NoRow
    /\ jobs[name] = NoJob
    /\ JobCount < MaxJobs
    /\ nextUid < UidStart + MaxSpawns
    /\ LET k == CHOOSE i \in 0..MaxSpawns :
                    /\ \A n \in LifeNames : rows[n] = NoRow \/ rows[n].uid # UidStart + i
                    /\ \A j \in 0..(i - 1) :
                           \E n \in LifeNames : rows[n] # NoRow /\ rows[n].uid = UidStart + j
       IN /\ rows' = [rows EXCEPT ![name] =
                         Reserve(name, UidStart + k, GatewayPortStart + k)]
          /\ nextUid' = UidStart + k + 1
          /\ nextGatewayPort' = GatewayPortStart + k + 1
          /\ everUid' = everUid \cup {UidStart + k}
          /\ everPort' = everPort \cup {GatewayPortStart + k}
    /\ jobs' = [jobs EXCEPT ![name] = [NoJob EXCEPT !.op = "spawn", !.step = 2]]
    /\ result' = NoResult
    /\ UNCHANGED <<resources, pidOf>>
    /\ UNCHANGED <<vars, hostVars>>

\* spawn(name), step 1: reserve the allocations and insert the row
SpawnReserve(name) ==
    /\ rows[name] = NoRow
    /\ jobs[name] = NoJob
    /\ JobCount < MaxJobs
    /\ nextUid < UidStart + MaxSpawns
    /\ rows' = [rows EXCEPT ![name] = Reserve(name, nextUid, nextGatewayPort)]
    /\ nextUid' = nextUid + 1
    /\ nextGatewayPort' = nextGatewayPort + 1
    /\ everUid' = everUid \cup {nextUid}
    /\ everPort' = everPort \cup {nextGatewayPort}
    /\ jobs' = [jobs EXCEPT ![name] = [NoJob EXCEPT !.op = "spawn", !.step = 2]]
    /\ result' = NoResult
    /\ UNCHANGED <<resources, pidOf>>
    /\ UNCHANGED <<vars, hostVars>>

\* spawn(name) for a name already in the registry
SpawnRefused(name) ==
    /\ rows[name] # NoRow
    /\ jobs[name] = NoJob
    /\ result' = Returned("spawn", name, FALSE, "TenantExists")
    /\ UNCHANGED <<rows, nextUid, nextGatewayPort, resources, pidOf, jobs, everUid, everPort>>
    /\ UNCHANGED <<vars, hostVars>>

\* spawn(name), one of the steps 2..9 succeeds; pid is the pid of the VM
\* launched at step 6
SpawnStep(name, pid) ==
    /\ jobs[name].op = "spawn"
    /\ jobs[name].step <= LastCreateStep
    /\ LET kind == Creates[jobs[name].step - 1]
       IN /\ IF kind = "vm" THEN pid \in Pids \ LivePids ELSE pid = None
          /\ resources' = [resources EXCEPT ![name] = @ \cup ({kind} \ {"none"})]
          /\ pidOf' = IF kind = "vm" THEN [pidOf EXCEPT ![name] = pid] ELSE pidOf
          /\ jobs' = [jobs EXCEPT ![name].step = @ + 1,
                                  ![name].pid = IF kind = "vm" THEN pid ELSE @]
    /\ result' = NoResult
    /\ UNCHANGED <<rows, nextUid, nextGatewayPort, everUid, everPort>>
    /\ UNCHANGED <<vars, hostVars>>

\* spawn(name), step 10: mark active with the captured pid and persist
SpawnActivate(name) ==
    /\ jobs[name].op = "spawn"
    /\ jobs[name].step = ActivateStep
    /\ rows' = [rows EXCEPT ![name].status = "active", ![name].vmPid = jobs[name].pid]
    /\ jobs' = [jobs EXCEPT ![name] = NoJob]
    /\ result' = Returned("spawn", name, TRUE, "")
    /\ UNCHANGED <<nextUid, nextGatewayPort, resources, pidOf, everUid, everPort>>
    /\ UNCHANGED <<vars, hostVars>>

\* spawn(name), one of the steps 2..9 fails: evict(name) starts as the
\* rollback and keeps the error of the failed step
SpawnStepFails(name) ==
    /\ jobs[name].op = "spawn"
    /\ jobs[name].step <= LastCreateStep
    /\ rows' = [rows EXCEPT ![name].status = "evicting"]
    /\ jobs' = [jobs EXCEPT ![name] =
                   [op |-> "evict", step |-> 1, error |-> StepError[jobs[name].step - 1],
                    rollback |-> TRUE, pid |-> None]]
    /\ result' = NoResult
    /\ UNCHANGED <<nextUid, nextGatewayPort, resources, pidOf, everUid, everPort>>
    /\ UNCHANGED <<vars, hostVars>>

\* evict(name) starts: the tenant enters evicting
EvictStart(name) ==
    /\ rows[name] # NoRow
    /\ jobs[name] = NoJob
    /\ JobCount < MaxJobs
    /\ rows' = [rows EXCEPT ![name].status = "evicting"]
    /\ jobs' = [jobs EXCEPT ![name] = [NoJob EXCEPT !.op = "evict", !.step = 1]]
    /\ result' = NoResult
    /\ UNCHANGED <<nextUid, nextGatewayPort, resources, pidOf, everUid, everPort>>
    /\ UNCHANGED <<vars, hostVars>>

\* mutant: evict deletes the registry row before the teardown
EvictStep_RowFirst(name) ==
    /\ jobs[name].op = "evict"
    /\ jobs[name].step <= Len(Teardown)
    /\ LET kind == Teardown[jobs[name].step]
       IN /\ resources' = [resources EXCEPT ![name] = @ \ {kind}]
          /\ pidOf' = IF kind = "vm" THEN [pidOf EXCEPT ![name] = None] ELSE pidOf
    /\ rows' = [rows EXCEPT ![name] = NoRow]
    /\ jobs' = [jobs EXCEPT ![name].step = @ + 1]
    /\ result' = NoResult
    /\ UNCHANGED <<nextUid, nextGatewayPort, everUid, everPort>>
    /\ UNCHANGED <<vars, hostVars>>

\* evict(name), one teardown step succeeds (a missing resource is no error)
EvictStep(name) ==
    /\ jobs[name].op = "evict"
    /\ jobs[name].step <= Len(Teardown)
    /\ LET kind == Teardown[jobs[name].step]
       IN /\ resources' = [resources EXCEPT ![name] = @ \ {kind}]
          /\ pidOf' = IF kind = "vm" THEN [pidOf EXCEPT ![name] = None] ELSE pidOf
    /\ jobs' = [jobs EXCEPT ![name].step = @ + 1]
    /\ result' = NoResult
    /\ UNCHANGED <<rows, nextUid, nextGatewayPort, everUid, everPort>>
    /\ UNCHANGED <<vars, hostVars>>

\* mutant: a spawn whose rollback went through reports the rollback, not the
\* failed step
EvictDeleteRow_RollbackResult(name) ==
    /\ jobs[name].op = "evict"
    /\ jobs[name].step = Len(Teardown) + 1
    /\ rows' = [rows EXCEPT ![name] = NoRow]
    /\ jobs' = [jobs EXCEPT ![name] = NoJob]
    /\ result' = IF jobs[name].rollback
                 THEN Returned("spawn", name, FALSE, "rolled back")
                 ELSE Returned("evict", name, TRUE, "")
    /\ UNCHANGED <<nextUid, nextGatewayPort, resources, pidOf, everUid, everPort>>
    /\ UNCHANGED <<vars, hostVars>>

\* evict(name), last step: delete the registry row. A rollback returns the
\* error of the spawn step that failed
EvictDeleteRow(name) ==
    /\ jobs[name].op = "evict"
    /\ jobs[name].step = Len(Teardown) + 1
    /\ rows' = [rows EXCEPT ![name] = NoRow]
    /\ jobs' = [jobs EXCEPT ![name] = NoJob]
    /\ result' = IF jobs[name].rollback
                 THEN Returned("spawn", name, FALSE, jobs[name].error)
                 ELSE Returned("evict", name, TRUE, "")
    /\ UNCHANGED <<nextUid, nextGatewayPort, resources, pidOf, everUid, everPort>>
    /\ UNCHANGED <<vars, hostVars>>

\* evict(name), a teardown step fails on a resource that exists: the
\* operation ends there and the row stays, for a later evict or molt. A
\* rollback is best effort: the spawn still returns its own error
EvictStepFails(name) ==
    /\ jobs[name].op = "evict"
    /\ jobs[name].step <= Len(Teardown)
    /\ Teardown[jobs[name].step] \in resources[name]
    /\ jobs' = [jobs EXCEPT ![name] = NoJob]
    /\ result' = IF jobs[name].rollback
                 THEN Returned("spawn", name, FALSE, jobs[name].error)
                 ELSE Returned("evict", name, FALSE, TeardownError[jobs[name].step])
    /\ UNCHANGED <<rows, nextUid, nextGatewayPort, resources, pidOf, everUid, everPort>>
    /\ UNCHANGED <<vars, hostVars>>

\* the process running an operation dies between two steps
Crash(name) ==
    /\ jobs[name] # NoJob
    /\ jobs' = [jobs EXCEPT ![name] = NoJob]
    /\ result' = NoResult
    /\ UNCHANGED <<rows, nextUid, nextGatewayPort, resources, pidOf, everUid, everPort>>
    /\ UNCHANGED <<vars, hostVars>>

\* what molt finds missing for a row, in the order it checks
Missing(name) ==
    SelectSeq(CheckOrder,
              LAMBDA k : k \in Declared(rows[name].status) /\ k \notin resources[name])

ActionNames(kinds) == [i \in DOMAIN kinds |-> ActionName(kinds[i])]

Elems(seq) == {seq[i] : i \in DOMAIN seq}

\* mutant: molt reinstates the proxy route of an active tenant on every run
Molt_AlwaysRoute(name, upto, pid) ==
    /\ rows[name] # NoRow
    /\ jobs[name] = NoJob
    /\ upto = Len(Missing(name))
    /\ pid = None
    /\ "vm" \notin Elems(Missing(name))
    /\ rows[name].status = "active"
    /\ resources' = [resources EXCEPT ![name] = @ \cup Elems(Missing(name)) \cup {"route"}]
    /\ result' = [op |-> "molt", tenant |-> name, ok |-> TRUE, error |-> "",
                  actions |-> ActionNames(Missing(name)) \o <<"proxy-route">>,
                  healthy |-> TRUE]
    /\ UNCHANGED <<rows, nextUid, nextGatewayPort, pidOf, jobs, everUid, everPort>>
    /\ UNCHANGED <<vars, hostVars>>

\* molt(name): recreate what is missing, in order, up to the first repair
\* that fails (upto = the number of repairs that succeed); pid is the pid of a
\* relaunched VM. A run with a failure counts against maxRepairAttempts, and
\* past the bound the tenant becomes degraded; degraded and evicting tenants
\* are left alone
Molt(name, upto, pid) ==
    /\ rows[name] # NoRow
    /\ jobs[name] = NoJob
    /\ LET row == rows[name]
           skip == row.status \in {"degraded", "evicting"}
           missing == Missing(name)
           fixed == SubSeq(missing, 1, upto)
           failed == upto < Len(missing)
           launched == "vm" \in Elems(fixed)
           attempts == IF failed THEN row.attempts + 1 ELSE row.attempts
           status == IF failed
                     THEN IF attempts > MaxRepairAttempts THEN "degraded" ELSE row.status
                     ELSE IF row.status = "initializing" THEN "active" ELSE row.status
       IN /\ upto \in 0..Len(missing)
          /\ IF launched THEN pid \in Pids \ LivePids ELSE pid = None
          /\ resources' = [resources EXCEPT ![name] = @ \cup Elems(fixed)]
          /\ pidOf' = IF launched THEN [pidOf EXCEPT ![name] = pid] ELSE pidOf
          /\ rows' = IF skip THEN rows
                     ELSE [rows EXCEPT ![name].status = status,
                                       ![name].attempts = attempts,
                                       ![name].vmPid = IF launched THEN pid ELSE @]
          /\ result' = [op |-> "molt", tenant |-> name, ok |-> TRUE, error |-> "",
                        actions |-> ActionNames(fixed),
                        healthy |-> ~skip /\ ~failed]
    /\ UNCHANGED <<nextUid, nextGatewayPort, jobs, everUid, everPort>>
    /\ UNCHANGED <<vars, hostVars>>

\* suspend(name): stop the VM, remove the proxy route, then mark the row
\* suspended with its suspendInfo and no vmPid. When the route removal fails
\* the VM is already down and the row is as it was
Suspend(name, ok) ==
    /\ rows[name].status = "active"
    /\ jobs[name] = NoJob
    /\ resources' = [resources EXCEPT ![name] = @ \ (IF ok THEN {"vm", "route"} ELSE {"vm"})]
    /\ pidOf' = [pidOf EXCEPT ![name] = None]
    /\ rows' = IF ok
               THEN [rows EXCEPT ![name].status = "suspended",
                                 ![name].suspendInfo = TRUE,
                                 ![name].vmPid = None]
               ELSE rows
    /\ result' = Returned("suspend", name, ok, IF ok THEN "" ELSE "ProxyError")
    /\ UNCHANGED <<nextUid, nextGatewayPort, jobs, everUid, everPort>>
    /\ UNCHANGED <<vars, hostVars>>

\* mutant: resume reserves a fresh uid and port for the tenant it relaunches
Resume_Reallocates(name, ok, pid) ==
    /\ rows[name].status = "suspended"
    /\ jobs[name] = NoJob
    /\ ok
    /\ pid \in Pids \ LivePids
    /\ resources' = [resources EXCEPT ![name] = @ \cup {"chroot", "vm", "route"}]
    /\ pidOf' = [pidOf EXCEPT ![name] = pid]
    /\ rows' = [rows EXCEPT ![name] =
                   [Reserve(name, nextUid, nextGatewayPort) EXCEPT
                       !.status = "active", !.vmPid = pid]]
    /\ nextUid' = nextUid + 1
    /\ nextGatewayPort' = nextGatewayPort + 1
    /\ result' = Returned("resume", name, TRUE, "")
    /\ UNCHANGED <<jobs, everUid, everPort>>
    /\ UNCHANGED <<vars, hostVars>>

\* resume(name): re-link the chroot if missing, relaunch the VM (pid), put
\* the proxy route back, clear suspendInfo and mark the row active. A failed
\* relaunch leaves everything as it was
Resume(name, ok, pid) ==
    /\ rows[name].status = "suspended"
    /\ jobs[name] = NoJob
    /\ IF ok THEN pid \in Pids \ LivePids ELSE pid = None
    /\ resources' = IF ok
                    THEN [resources EXCEPT ![name] = @ \cup {"chroot", "vm", "route"}]
                    ELSE resources
    /\ pidOf' = IF ok THEN [pidOf EXCEPT ![name] = pid] ELSE pidOf
    /\ rows' = IF ok
               THEN [rows EXCEPT ![name].status = "active",
                                 ![name].suspendInfo = FALSE,
                                 ![name].vmPid = pid]
               ELSE rows
    /\ result' = Returned("resume", name, ok, IF ok THEN "" ELSE "ExecFailed")
    /\ UNCHANGED <<nextUid, nextGatewayPort, jobs, everUid, everPort>>
    /\ UNCHANGED <<vars, hostVars>>

\* outside the engine: the VM process dies, or the proxy route is deleted
Damage(name, kind) ==
    /\ kind \in resources[name]
    /\ jobs[name] = NoJob
    /\ resources' = [resources EXCEPT ![name] = @ \ {kind}]
    /\ pidOf' = IF kind = "vm" THEN [pidOf EXCEPT ![name] = None] ELSE pidOf
    /\ result' = NoResult
    /\ UNCHANGED <<rows, nextUid, nextGatewayPort, jobs, everUid, everPort>>
    /\ UNCHANGED <<vars, hostVars>>

\* the lifecycle commands run on a host whose watchdog is not started
NoScheduler ==
    /\ running = FALSE
    /\ idleSince = [n \in Tenants |-> None]
    /\ cronTimers = [n \in Tenants |-> NoTimer]
    /\ inFlight = {}
    /\ trafficArmed = FALSE
    /\ idleArmed = FALSE
    /\ armed = {}
    /\ passes = <<>>
    /\ ops = [n \in Tenants |-> <<>>]
    /\ registry = [n \in Tenants |-> Row("active")]
    /\ tap = [n \in Tenants |-> MaxRx]
    /\ now = 1
    /\ emitted = <<>>
    /\ open = [n \in Tenants |-> "none"]
    /\ dropped = {}
    /\ replied = <<>>

LifeInit == FreshHost /\ NoScheduler /\ HostIdle

\* Several tenants side by side: spawn (with its rollback), evict, suspend
\* and resume, every teardown step going through
LifeNext ==
    \/ \E name \in LifeNames : SpawnReserve(name)
    \/ \E name \in LifeNames : SpawnRefused(name)
    \/ \E name \in LifeNames, pid \in {None} \cup Pids : SpawnStep(name, pid)
    \/ \E name \in LifeNames : SpawnActivate(name)
    \/ \E name \in LifeNames : SpawnStepFails(name)
    \/ \E name \in LifeNames : EvictStart(name)
    \/ \E name \in LifeNames : EvictStep(name)
    \/ \E name \in LifeNames : EvictDeleteRow(name)
    \/ \E name \in LifeNames, ok \in BOOLEAN : Suspend(name, ok)
    \/ \E name \in LifeNames, ok \in BOOLEAN, pid \in {None} \cup Pids : Resume(name, ok, pid)

LifeSpec == LifeInit /\ [][LifeNext]_lifeVars

\* One tenant under every fault: failing teardown steps, a process dying
\* between steps, resources lost outside the engine, and molt repairing
Subject == "alice"

TenantNext ==
    \/ SpawnReserve(Subject)
    \/ SpawnRefused(Subject)
    \/ \E pid \in {None} \cup Pids : SpawnStep(Subject, pid)
    \/ SpawnActivate(Subject)
    \/ SpawnStepFails(Subject)
    \/ EvictStart(Subject)
    \/ EvictStep(Subject)
    \/ EvictDeleteRow(Subject)
    \/ EvictStepFails(Subject)
    \/ Crash(Subject)
    \/ \E upto \in 0..Len(CheckOrder), pid \in {None} \cup Pids : Molt(Subject, upto, pid)
    \/ \E ok \in BOOLEAN : Suspend(Subject, ok)
    \/ \E ok \in BOOLEAN, pid \in {None} \cup Pids : Resume(Subject, ok, pid)
    \/ \E kind \in {"vm", "route"} : Damage(Subject, kind)

TenantSpec == LifeInit /\ [][TenantNext]_lifeVars
\* ================================================ claims on the lifecycle
Present(n) == rows[n] # NoRow

\* a step that gives tenant n a uid and port it did not hold before the step
Assigned(n) ==
    /\ rows'[n] # NoRow
    /\ \/ rows[n] = NoRow
       \/ rows'[n].uid # rows[n].uid
       \/ rows'[n].gatewayPort # rows[n].gatewayPort

\* C14: over any sequence of spawn and evict operations nextUid and
\* nextGatewayPort never decrease, and a uid or gatewayPort that was ever
\* assigned is never assigned again, also after its tenant was evicted.
C14_NeverReused ==
    [][ /\ nextUid' >= nextUid
        /\ nextGatewayPort' >= nextGatewayPort
        /\ \A n \in LifeNames :
               Assigned(n) => /\ rows'[n].uid \notin everUid
                              /\ rows'[n].gatewayPort \notin everPort ]_lifeVars

\* alice and bob were spawned, alice was evicted, and the next spawn was
\* given uid 10002 and port 9002 while 10000 and 9000 are held by no row
C14_Witness ==
    /\ rows["bob"].uid = UidStart + 1
    /\ rows["alice"].uid = UidStart + 2
    /\ rows["alice"].gatewayPort = GatewayPortStart + 2
    /\ rows["alice"].status = "active"
    /\ UidStart \in everUid
    /\ nextUid = UidStart + 3

Suspends(n) == rows[n].status = "active" /\ rows'[n].status = "suspended"
Resumes(n) == rows[n].status = "suspended" /\ rows'[n].status = "active"

SameIdentity(n) ==
    /\ rows'[n].uid = rows[n].uid
    /\ rows'[n].cid = rows[n].cid
    /\ rows'[n].gatewayPort = rows[n].gatewayPort

SameAllocators ==
    /\ nextUid' = nextUid
    /\ nextGatewayPort' = nextGatewayPort

\* C17: suspend(name) followed by resume(name) returns the tenant to status
\* active with suspendInfo cleared, the vmPid of the relaunched VM, and the
\* same uid, cid and gatewayPort as before the suspend; neither operation
\* advances the allocators. A row keeps uid, cid and gatewayPort for as long
\* as it is in the registry, so they are the same across the whole pair.
C17_SuspendResume ==
    [][ \A n \in LifeNames :
           /\ (Present(n) /\ rows'[n] # NoRow) => SameIdentity(n)
           /\ Suspends(n) => /\ rows'[n].suspendInfo
                              /\ rows'[n].vmPid = None
                              /\ SameAllocators
           /\ Resumes(n) => /\ ~rows'[n].suspendInfo
                             /\ rows'[n].vmPid \in Pids
                             /\ rows'[n].vmPid = pidOf'[n]
                             /\ "vm" \in resources'[n]
                             /\ SameAllocators ]_lifeVars

\* the second tenant was suspended and has just been resumed
C17_Witness ==
    /\ result = Returned("resume", "bob", TRUE, "")
    /\ rows["bob"].status = "active"
    /\ rows["bob"].uid = UidStart + 1
    /\ rows["bob"].cid = FirstCid + 1
    /\ rows["bob"].vmPid \in Pids
    /\ ~rows["bob"].suspendInfo
\* a spawn step past the reservation fails on this step
StepFailed(n) == jobs[n].op = "spawn" /\ jobs'[n].op = "evict"

\* the spawn whose step failed returns on this step, its rollback over
RollbackReturns(n) ==
    /\ jobs[n].rollback
    /\ jobs'[n] = NoJob
    /\ result'.op = "spawn"
    /\ result'.tenant = n

Healthy(n) ==
    /\ rows[n].status \in {"active", "suspended"}
    /\ Missing(n) = <<>>

\* molt(n) returns on this step
MoltReturns(n) == result'.op = "molt" /\ result'.tenant = n

\* C20: molt(name) is idempotent: run against a tenant all of whose declared
\* resources are healthy (in particular right after a molt that repaired it
\* and reported healthy), it takes zero actions, reports healthy = true and
\* changes neither the registry nor any resource.
C20_MoltIdempotent ==
    /\ [](\A n \in LifeNames :
             (result.op = "molt" /\ result.tenant = n /\ result.healthy) => Healthy(n))
    /\ [][ \A n \in LifeNames :
               (Healthy(n) /\ MoltReturns(n)) =>
                   /\ result'.actions = <<>>
                   /\ result'.healthy
                   /\ rows' = rows
                   /\ nextUid' = nextUid
                   /\ nextGatewayPort' = nextGatewayPort
                   /\ resources' = resources
                   /\ pidOf' = pidOf ]_lifeVars

\* molt has just found nothing to do on an active tenant that an earlier
\* run had to repair after a failed attempt
C20_Witness ==
    /\ result.op = "molt"
    /\ result.tenant = Subject
    /\ result.actions = <<>>
    /\ result.healthy
    /\ rows[Subject].status = "active"
    /\ rows[Subject].attempts > 0
    /\ resources[Subject] = Declared("active")
CheckStep == [linux |-> 1, root |-> 2, kvm |-> 3, firecracker |-> 5, jailer |-> 6,
              kernel |-> 7, rootfs |-> 8]
ModprobeStep == 4
EnsureDirsStep == 9
WriteConfigStep == 10
WriteRegistryStep == 11
CertsStep == 12
ForwardingStep == 13
CaddyRunningStep == 14
CaddyConfigStep == 15

\* the error each failed check returns (init.ts:14-92)
CheckError ==
    [linux |-> [code |-> "NOT_LINUX", message |-> "lobsterd requires Linux"],
     root |-> [code |-> "NOT_ROOT", message |-> "lobster init must be run as root"],
     kvm |-> [code |-> "KVM_NOT_AVAILABLE", message |-> "/dev/kvm not found"],
     firecracker |-> [code |-> "FIRECRACKER_NOT_FOUND",
                      message |-> "Firecracker binary not found"],
     jailer |-> [code |-> "JAILER_NOT_FOUND", message |-> "Jailer binary not found"],
     kernel |-> [code |-> "FIRECRACKER_NOT_FOUND", message |-> "Kernel image not found"],
     rootfs |-> [code |-> "FIRECRACKER_NOT_FOUND",
                 message |-> "Root filesystem not found"]]

\* the flag runInit sets once a check has passed; linux and root set none
CheckFlag(h, c) ==
    CASE c = "kvm" -> [h EXCEPT !.kvmAvailable = TRUE]
      [] c = "firecracker" -> [h EXCEPT !.firecrackerFound = TRUE]
      [] c = "jailer" -> [h EXCEPT !.jailerFound = TRUE]
      [] c = "kernel" -> [h EXCEPT !.kernelFound = TRUE]
      [] c = "rootfs" -> [h EXCEPT !.rootfsFound = TRUE]
      [] OTHER -> h

\* JSON.stringify(EMPTY_REGISTRY): the rows in registry order and the two
\* allocators
Stringify(reg) ==
    [tenants |-> SelectSeq(Names, LAMBDA n : reg.tenants[n] # NoRow),
     nextUid |-> reg.nextUid,
     nextGatewayPort |-> reg.nextGatewayPort]

\* an Err ends the chain: no later andThen callback runs
Fails(code, message) ==
    [setup EXCEPT !.pc = 0, !.returned = "err",
                  !.error = [code |-> code, message |-> message]]

\* the operator runs lobster init
RunInit ==
    /\ setup.pc = 0
    /\ setup' = [setup EXCEPT !.pc = 1, !.flags = BlankResult, !.returned = "none",
                              !.error = NoError]
    /\ UNCHANGED exceptSetup

\* mutant: a missing kernel image is reported by its flag only
InitCheck_KernelOptional(c) ==
    /\ setup.pc = CheckStep[c]
    /\ setup' = IF setup.env[c]
                THEN [setup EXCEPT !.pc = @ + 1, !.flags = CheckFlag(@, c)]
                ELSE IF c = "kernel" THEN [setup EXCEPT !.pc = @ + 1]
                ELSE Fails(CheckError[c].code, CheckError[c].message)
    /\ UNCHANGED exceptSetup

\* checkLinux, checkRoot, checkKvm, checkFirecracker, checkJailer,
\* checkKernel, checkRootfs
InitCheck(c) ==
    /\ setup.pc = CheckStep[c]
    /\ setup' = IF setup.env[c]
                THEN [setup EXCEPT !.pc = @ + 1, !.flags = CheckFlag(@, c)]
                ELSE Fails(CheckError[c].code, CheckError[c].message)
    /\ UNCHANGED exceptSetup

\* modprobe vhost_vsock, best effort: its failure is replaced by ok
Modprobe(ok) ==
    /\ setup.pc = ModprobeStep
    /\ setup' = [setup EXCEPT !.pc = @ + 1, !.module = @ \/ ok]
    /\ UNCHANGED exceptSetup

\* ensureDirs: mkdir -p and the two chmods
EnsureDirs(ok) ==
    /\ setup.pc = EnsureDirsStep
    /\ setup' = IF ok
                THEN [setup EXCEPT !.pc = @ + 1, !.dirs = TRUE, !.flags.dirsCreated = TRUE]
                ELSE Fails("EXEC_FAILED", "mkdir failed")
    /\ UNCHANGED exceptSetup

\* writeDefaultConfig: only when CONFIG_PATH does not exist
WriteDefaultConfig(ok) ==
    /\ setup.pc = WriteConfigStep
    /\ setup' = IF setup.config.exists THEN [setup EXCEPT !.pc = @ + 1]
                ELSE IF ok
                THEN [setup EXCEPT !.pc = @ + 1,
                                   !.config = [exists |-> TRUE, content |-> "default"]]
                ELSE Fails("EXEC_FAILED", "Failed to write default config")
    /\ UNCHANGED exceptSetup

\* mutant: the registry file is written on every run
WriteEmptyRegistry_Always(ok) ==
    /\ setup.pc = WriteRegistryStep
    /\ setup' = IF ok
                THEN [setup EXCEPT !.pc = @ + 1, !.flags.configCreated = TRUE,
                                   !.registryFile = [exists |-> TRUE,
                                                     content |-> Stringify(EMPTY_REGISTRY)]]
                ELSE Fails("EXEC_FAILED", "Failed to write empty registry")
    /\ UNCHANGED exceptSetup

\* writeEmptyRegistry: only when REGISTRY_PATH does not exist; the next
\* callback sets configCreated
WriteEmptyRegistry(ok) ==
    /\ setup.pc = WriteRegistryStep
    /\ setup' = IF setup.registryFile.exists
                THEN [setup EXCEPT !.pc = @ + 1, !.flags.configCreated = TRUE]
                ELSE IF ok
                THEN [setup EXCEPT !.pc = @ + 1, !.flags.configCreated = TRUE,
                                   !.registryFile = [exists |-> TRUE,
                                                     content |-> Stringify(EMPTY_REGISTRY)]]
                ELSE Fails("EXEC_FAILED", "Failed to write empty registry")
    /\ UNCHANGED exceptSetup

\* installOriginCerts: installed, nothing bundled, or the copy fails
InstallOriginCerts(outcome) ==
    /\ setup.pc = CertsStep
    /\ setup' = CASE outcome = "installed" ->
                         [setup EXCEPT !.pc = @ + 1, !.certs = TRUE,
                                       !.flags.certsInstalled = TRUE]
                  [] outcome = "none" -> [setup EXCEPT !.pc = @ + 1]
                  [] OTHER -> Fails("EXEC_FAILED", "Failed to install origin certs")
    /\ UNCHANGED exceptSetup

\* network.enableIpForwarding
EnableIpForwarding(ok) ==
    /\ setup.pc = ForwardingStep
    /\ setup' = IF ok
                THEN [setup EXCEPT !.pc = @ + 1, !.ipForwarding = TRUE,
                                   !.flags.ipForwardingEnabled = TRUE]
                ELSE Fails("EXEC_FAILED", "sysctl failed")
    /\ UNCHANGED exceptSetup

\* caddy.ensureCaddyRunning
EnsureCaddyRunning(ok) ==
    /\ setup.pc = CaddyRunningStep
    /\ setup' = IF ok
                THEN [setup EXCEPT !.pc = @ + 1,
                                   !.caddy = IF @ = "untouched" THEN "running" ELSE @]
                ELSE Fails("CADDY_API_ERROR", "Caddy is not running")
    /\ UNCHANGED exceptSetup

\* mutant: the base config is merged into the running one, routes kept
WriteCaddyBaseConfig_KeepsRoutes(ok) ==
    /\ setup.pc = CaddyConfigStep
    /\ setup' = IF ok
                THEN [setup EXCEPT !.pc = 0, !.caddy = "configured",
                                   !.flags.caddyConfigured = TRUE, !.returned = "ok"]
                ELSE Fails("CADDY_API_ERROR", "Failed to load the base config")
    /\ UNCHANGED exceptSetup

\* caddy.writeCaddyBaseConfig, then the final map: the run returns its flags.
\* POST /load puts the posted configuration in place of the running one, and
\* the posted one has routes: []
WriteCaddyBaseConfig(ok) ==
    /\ setup.pc = CaddyConfigStep
    /\ setup' = IF ok
                THEN [setup EXCEPT !.pc = 0, !.caddy = "configured", !.routes = {},
                                   !.flags.caddyConfigured = TRUE, !.returned = "ok"]
                ELSE Fails("CADDY_API_ERROR", "Failed to load the base config")
    /\ UNCHANGED exceptSetup

\* between two runs of init: spawn has written the registry with a tenant
\* and added the tenant's route (addRoute, caddy.ts:33-55)
RegistrySaved ==
    /\ setup.pc = 0
    /\ setup.registryFile.exists
    /\ setup.registryFile.content.tenants = <<>>
    /\ setup' = [setup EXCEPT !.registryFile.content =
                     [tenants |-> <<Names[1]>>, nextUid |-> UidStart + 1,
                      nextGatewayPort |-> GatewayPortStart + 1],
                              !.routes = @ \cup {Names[1]}]
    /\ UNCHANGED exceptSetup

\* between two runs of init: the operator edits config.json
ConfigEdited ==
    /\ setup.pc = 0
    /\ setup.config = [exists |-> TRUE, content |-> "default"]
    /\ setup' = [setup EXCEPT !.config.content = "custom"]
    /\ UNCHANGED exceptSetup

CheckNames == {Checks[i] : i \in DOMAIN Checks}

\* the hosts init is started on: any outcome of the seven checks, with or
\* without the files of an earlier installation
SetupInit ==
    /\ FreshHost
    /\ NoScheduler
    /\ HostIdleBut("setup")
    /\ \E env \in [CheckNames -> BOOLEAN], installed \in BOOLEAN :
           setup = IF installed
                   THEN [BareHost EXCEPT
                            !.env = env, !.dirs = TRUE,
                            !.config = [exists |-> TRUE, content |-> "custom"],
                            !.routes = {Names[1]},
                            !.registryFile =
                                [exists |-> TRUE,
                                 content |-> [tenants |-> <<Names[1]>>,
                                              nextUid |-> UidStart + 1,
                                              nextGatewayPort |-> GatewayPortStart + 1]]]
                   ELSE [BareHost EXCEPT !.env = env]

SetupNext ==
    \/ RunInit
    \/ \E c \in CheckNames : InitCheck(c)
    \/ \E ok \in BOOLEAN : Modprobe(ok)
    \/ \E ok \in BOOLEAN : EnsureDirs(ok)
    \/ \E ok \in BOOLEAN : WriteDefaultConfig(ok)
    \/ \E ok \in BOOLEAN : WriteEmptyRegistry(ok)
    \/ \E outcome \in {"installed", "none", "fail"} : InstallOriginCerts(outcome)
    \/ \E ok \in BOOLEAN : EnableIpForwarding(ok)
    \/ \E ok \in BOOLEAN : EnsureCaddyRunning(ok)
    \/ \E ok \in BOOLEAN : WriteCaddyBaseConfig(ok)
    \/ RegistrySaved
    \/ ConfigEdited

SetupSpec == SetupInit /\ [][SetupNext]_hostVars

\* the checks that fail on this host, and the first of them in runInit's order
Failing == {c \in CheckNames : ~setup.env[c]}
FirstFailing == CHOOSE c \in Failing : \A d \in Failing : CheckStep[c] <= CheckStep[d]

\* what init sets up after the checks
Installed(h) == <<h.dirs, h.config, h.registryFile, h.certs, h.ipForwarding, h.caddy>>

\* C22: any mandatory check failure in init is fatal: runInit checks, in
\* order, Linux, root, /dev/kvm, Firecracker binary, jailer binary, kernel
\* image and rootfs image; if one fails it returns that error and performs
\* none of the later steps, so no directory, config or registry file is
\* created or changed, IP forwarding is not enabled, the proxy is not touched.
C22_CheckFailureIsFatal ==
    /\ [](Failing # {} =>
             /\ setup.pc <= CheckStep[FirstFailing]
             /\ setup.returned # "ok"
             /\ setup.returned = "err" => setup.error = CheckError[FirstFailing]
             /\ \A c \in CheckNames :
                    CheckStep[c] >= CheckStep[FirstFailing] =>
                        CheckFlag(setup.flags, c) # setup.flags \/ c \in {"linux", "root"}
             /\ ~setup.flags.dirsCreated /\ ~setup.flags.configCreated
             /\ ~setup.flags.ipForwardingEnabled /\ ~setup.flags.caddyConfigured)
    /\ [][ (Failing # {} /\ setup.pc # 0) =>
               /\ Installed(setup') = Installed(setup)
               /\ setup.pc = CheckStep[FirstFailing] =>
                      /\ setup'.pc = 0
                      /\ setup'.returned = "err"
                      /\ setup'.error = CheckError[FirstFailing] ]_hostVars

\* the rootfs image is missing on a bare host: init has returned the rootfs
\* check's error after six passed checks, and nothing has been set up
C22_Witness ==
    /\ Failing = {"rootfs"}
    /\ setup.returned = "err"
    /\ setup.error = CheckError["rootfs"]
    /\ setup.flags.kernelFound
    /\ Installed(setup) = Installed(BareHost)

\* C23: init writes the default config and the empty registry only if the
\* file is absent: an existing config.json or registry.json is left unchanged
\* (re-running init never resets tenants or allocators), and a registry
\* written by a fresh init has tenants = [], nextUid = 10000 and
\* nextGatewayPort = 9000.
C23_WritesOnlyIfAbsent ==
    [][ setup.pc # 0 =>
           /\ setup.config.exists => setup'.config = setup.config
           /\ setup.registryFile.exists => setup'.registryFile = setup.registryFile
           /\ (~setup.config.exists /\ setup'.config.exists) =>
                  /\ setup.pc = WriteConfigStep
                  /\ setup'.config.content = "default"
           /\ (~setup.registryFile.exists /\ setup'.registryFile.exists) =>
                  /\ setup.pc = WriteRegistryStep
                  /\ setup'.registryFile.content =
                         [tenants |-> <<>>, nextUid |-> 10000, nextGatewayPort |-> 9000] ]_hostVars

\* a run of init has passed both write steps on a host whose registry holds
\* a tenant and whose config was edited: both files are as they were
C23_Witness ==
    /\ setup.pc = CaddyConfigStep
    /\ setup.flags.configCreated
    /\ setup.config = [exists |-> TRUE, content |-> "custom"]
    /\ setup.registryFile.content.tenants = <<Names[1]>>
    /\ setup.registryFile.content.nextUid = UidStart + 1
    /\ setup.registryFile.content.nextGatewayPort = GatewayPortStart + 1

\* ======================================================= the in-guest agent
\* lobster-agent.mjs: JavaScript truthiness of a secret's value
Truthy(v) == v \notin {"absent", ""}

\* { ...secrets, ...newSecrets }
Merge(old, new) == [k \in SecretKeys |-> IF new[k] = "absent" THEN old[k] ELSE new[k]]

\* mutant: handleLaunchOpenclaw without the already-running answer
handleLaunchOpenclaw_NoGuard(a) ==
    IF ~Truthy(a.secrets["OPENCLAW_GATEWAY_TOKEN"])
    THEN [a EXCEPT !.response = "error: No gateway token available"]
    ELSE [a EXCEPT !.gatewayProcess = a.spawned + 1,
                   !.procs = @ \cup {a.spawned + 1},
                   !.spawned = @ + 1,
                   !.response = "launched"]

\* handleLaunchOpenclaw (part_003:100-133)
handleLaunchOpenclaw(a) ==
    IF a.gatewayProcess # None
    THEN [a EXCEPT !.response = "already-running"]
    ELSE IF ~Truthy(a.secrets["OPENCLAW_GATEWAY_TOKEN"])
    THEN [a EXCEPT !.response = "error: No gateway token available"]
    ELSE [a EXCEPT !.gatewayProcess = a.spawned + 1,
                   !.procs = @ \cup {a.spawned + 1},
                   !.spawned = @ + 1,
                   !.response = "launched"]

\* handleInjectSecrets (part_003:78-98)
handleInjectSecrets(a, newSecrets) ==
    LET merged == [a EXCEPT !.secrets = Merge(@, newSecrets)]
        written == IF Truthy(merged.secrets["OPENCLAW_CONFIG"])
                   THEN [merged EXCEPT !.configWritten = TRUE]
                   ELSE merged
        launched == IF Truthy(written.secrets["OPENCLAW_GATEWAY_TOKEN"])
                       /\ written.gatewayProcess = None
                    THEN handleLaunchOpenclaw(written)
                    ELSE written
    IN [launched EXCEPT !.response = "ACK"]

\* handleShutdown (part_003:135-144): SIGTERM to the gateway, poweroff in 1 s
handleShutdown(a) ==
    [a EXCEPT !.killed = IF a.gatewayProcess # None THEN @ \cup {a.gatewayProcess} ELSE @,
              !.poweroff = "timer",
              !.response = "ACK"]

\* handleMessage (part_003:63-76): the switch on msg.type
handleMessage(a, msg) ==
    CASE msg.type = "inject-secrets" -> handleInjectSecrets(a, msg.secrets)
      [] msg.type = "health-ping" -> [a EXCEPT !.response = "PONG"]
      [] msg.type = "launch-openclaw" -> handleLaunchOpenclaw(a)
      [] msg.type = "shutdown" -> handleShutdown(a)
      [] OTHER -> [a EXCEPT !.response = "error: Unknown message type"]

\* the tenant's agentToken (logs.tsx:99) and what a request can carry in
\* its token field: nothing, the token, another string
AgentToken == "token-alice"
Tokens == {"", AgentToken, "wrong"}

\* the message kinds of the protocol, and one that is not
Kinds == {"inject-secrets", "health-ping", "launch-openclaw", "shutdown",
          "acquire-hold", "release-hold", "get-active-connections", "fetch-logs"}

SecretMaps == [SecretKeys -> {"absent", "", "s"}]

\* what the agent keeps between messages
AgentState(a) == <<a.secrets, a.gatewayProcess, a.procs, a.spawned, a.killed,
                   a.configWritten, a.poweroff>>

\* the connection's end handler (part_003:22-31) on a parsed message; the
\* sender takes the reply for a success when it includes expected
Handled(msg, expected) ==
    /\ agent.poweroff # "done"
    /\ LET a == handleMessage(agent, msg)
       IN /\ a.spawned <= MaxLaunches
          /\ agent' = [a EXCEPT !.request = msg, !.hostOk = (a.response = expected)]
    /\ UNCHANGED exceptAgent

\* vsock.injectSecrets (vsock.ts:30-58): the payload is {type, secrets};
\* success is exit code 0 and a reply that includes ACK
InjectSecrets(secrets) ==
    /\ secrets \in SecretMaps
    /\ Handled([type |-> "inject-secrets", token |-> "", secrets |-> secrets,
                from |-> "host"], "ACK")

\* vsock.healthPing (vsock.ts:60-81): the payload is {type}; true when the
\* reply includes PONG
HealthPing ==
    /\ agent.poweroff # "done"
    /\ Handled([type |-> "health-ping", token |-> "", secrets |-> NoSecrets,
                from |-> "host"], "PONG")

\* any other client of the agent's socket sends a well-formed message
Receive(type, token, secrets) ==
    /\ type # "inject-secrets" => secrets = NoSecrets
    /\ Handled([type |-> type, token |-> token, secrets |-> secrets, from |-> "other"],
               "nothing")

\* gatewayProcess.on('exit'): the handler of the process that exited
GatewayExit(pid) ==
    /\ pid \in agent.procs
    /\ agent' = [agent EXCEPT !.procs = @ \ {pid}, !.killed = @ \ {pid},
                              !.gatewayProcess = None,
                              !.request = NoMessage, !.response = "", !.hostOk = FALSE]
    /\ UNCHANGED exceptAgent

\* the timer of handleShutdown fires: poweroff
PowerOff ==
    /\ agent.poweroff = "timer"
    /\ agent' = [agent EXCEPT !.poweroff = "done", !.procs = {}, !.killed = {},
                              !.request = NoMessage, !.response = "", !.hostOk = FALSE]
    /\ UNCHANGED exceptAgent

AgentInit == FreshHost /\ NoScheduler /\ HostIdleBut("agent") /\ agent = FreshAgent

AgentNext ==
    \/ \E secrets \in SecretMaps : InjectSecrets(secrets)
    \/ HealthPing
    \/ \E type \in Kinds, token \in Tokens, secrets \in SecretMaps :
           Receive(type, token, secrets)
    \/ \E pid \in 1..MaxLaunches : GatewayExit(pid)
    \/ PowerOff

AgentSpec == AgentInit /\ [][AgentNext]_hostVars

\* C24 (as claimed): every vsock request the host sends carries the tenant's
\* agentToken, and the in-guest agent acts on a request only if its token
\* equals the tenant's agentToken; a request with a missing or wrong token
\* changes no agent state.
C24_TokenGuards ==
    /\ [](agent.request.from = "host" => agent.request.token = AgentToken)
    /\ [][ (agent'.request # NoMessage /\ agent'.request.token # AgentToken) =>
               AgentState(agent') = AgentState(agent) ]_hostVars

\* C25 (as claimed): the agent recognizes each of the eight message kinds: a
\* well-formed request of any of them is never answered with an
\* unknown-message-type error.
C25_KindsRecognized ==
    agent.request.type \in Kinds => agent.response # "error: Unknown message type"

\* ====================================================== the destroy drivers
\* caddyApi (caddy.ts:5-31) for DELETE /id/lobster-<name>: an Err when the
\* admin API is down (fetch throws) or the id is unknown (!res.ok)
caddyDelete(d, name, api) ==
    IF api = "up" /\ name \in d.routes
    THEN [st |-> [d EXCEPT !.routes = @ \ {name}], result |-> "ok"]
    ELSE [st |-> d, result |-> "CADDY_API_ERROR"]

\* .orElse(() => okAsync(undefined))
orElseOk(r) == [r EXCEPT !.result = "ok"]

\* mutant: the error of the DELETE is passed on
removeRoute_NoOrElse(d, name, api) == caddyDelete(d, name, api)

\* removeRoute (caddy.ts:57-67)
removeRoute(d, name, api) == orElseOk(caddyDelete(d, name, api))

\* exec(['rm', '-rf', dir]): removes the tree, or fails having removed
\* nothing or part of it; a directory that is not there is no failure
rmRf(dir, out) ==
    IF dir = "absent" THEN [dir |-> "absent", result |-> "ok"]
    ELSE CASE out = "ok" -> [dir |-> "absent", result |-> "ok"]
           [] out = "part" -> [dir |-> "partial", result |-> "EXEC_FAILED"]
           [] OTHER -> [dir |-> dir, result |-> "EXEC_FAILED"]

\* cleanupChroot (part_002:35-41)
cleanupChroot(d, name, out) ==
    LET r == rmRf(d.chroots[name], out)
    IN orElseOk([st |-> [d EXCEPT !.chroots[name] = r.dir], result |-> r.result])

\* removeKeypair (part_001:41-48)
removeKeypair(d, name, out) ==
    LET r == rmRf(d.keys[name], out)
    IN orElseOk([st |-> [d EXCEPT !.keys[name] = r.dir], result |-> r.result])

Destroyers == {"removeRoute", "cleanupChroot", "removeKeypair"}

\* what the environment can do to a call of each driver
Outcomes(driver) == IF driver = "removeRoute" THEN {"up", "down"} ELSE {"ok", "part", "none"}

Drive(driver, d, name, out) ==
    CASE driver = "removeRoute" -> removeRoute(d, name, out)
      [] driver = "cleanupChroot" -> cleanupChroot(d, name, out)
      [] OTHER -> removeKeypair(d, name, out)

\* the resource the driver is to destroy is not there
Gone(driver, d, name) ==
    CASE driver = "removeRoute" -> name \notin d.routes
      [] driver = "cleanupChroot" -> d.chroots[name] = "absent"
      [] OTHER -> d.keys[name] = "absent"

\* a caller runs one of the destroy drivers
Destroy(driver, name, out) ==
    /\ out \in Outcomes(driver)
    /\ LET r == Drive(driver, [drv EXCEPT !.call = NoCall], name, out)
       IN drv' = [r.st EXCEPT !.call = [driver |-> driver, tenant |-> name,
                                        result |-> r.result]]
    /\ UNCHANGED exceptDrv

\* addRoute (caddy.ts:33-55), the jailer's chroot, generateKeypair
\* (part_001:13-39): the resource comes into being
Create(kind, name) ==
    /\ drv' = CASE kind = "route" -> [drv EXCEPT !.routes = @ \cup {name}, !.call = NoCall]
                 [] kind = "chroot" -> [drv EXCEPT !.chroots[name] = "present",
                                                  !.call = NoCall]
                 [] OTHER -> [drv EXCEPT !.keys[name] = "present", !.call = NoCall]
    /\ drv' # drv
    /\ UNCHANGED exceptDrv

DrvInit == FreshHost /\ NoScheduler /\ HostIdleBut("drv") /\ drv = NoResources

DrvNext ==
    \/ \E driver \in Destroyers, name \in Tenants, out \in {"up", "down", "ok", "part", "none"} :
           Destroy(driver, name, out)
    \/ \E kind \in {"route", "chroot", "keys"}, name \in Tenants : Create(kind, name)

DrvSpec == DrvInit /\ [][DrvNext]_hostVars

Resources(d) == [d EXCEPT !.call = NoCall]

\* C26: the destroy drivers removeRoute, cleanupChroot and removeKeypair are
\* idempotent: called for a resource that is already missing they return
\* success (and leave it missing), and calling one twice in a row leaves the
\* same state and result as calling it once: under the same conditions
\* exactly, and under changing ones a state and result one call can give.
C26_DestroyIdempotent ==
    /\ drv.call.driver \in Destroyers => drv.call.result = "ok"
    /\ \A driver \in Destroyers, name \in Tenants :
           \A o1 \in Outcomes(driver) :
               LET once == Drive(driver, Resources(drv), name, o1)
               IN /\ Gone(driver, Resources(drv), name) =>
                         once = [st |-> Resources(drv), result |-> "ok"]
                  /\ Drive(driver, once.st, name, o1) = once
                  /\ \A o2 \in Outcomes(driver) :
                         \E o \in Outcomes(driver) :
                             Drive(driver, once.st, name, o2) =
                                 Drive(driver, Resources(drv), name, o)

\* removeRoute has just returned success for a tenant that had no route,
\* while the other tenant's resources are all there
C26_Witness ==
    /\ drv.call = [driver |-> "removeRoute", tenant |-> Names[1], result |-> "ok"]
    /\ Names[1] \notin drv.routes
    /\ Names[2] \in drv.routes
    /\ drv.chroots[Names[2]] = "present"
    /\ drv.keys[Names[1]] = "partial"

\* ============================================================= lobster list
\* String(tenant.vmPid)
PidString(pid) == <<"1", "2", "3", "4">>[pid]

\* process.kill(pid, 0): returns when the process exists and may be
\* signalled, throws otherwise (ESRCH, EPERM)
KillZero(l, t) == t.vmPid \in l.live /\ (l.root \/ t.own)

\* mutant: the probe's exception is not caught
quickCheck_NoCatch(l, t) ==
    [name |-> t.name, cid |-> t.cid, ip |-> t.ipAddress, port |-> t.gatewayPort,
     vmPid |-> IF t.vmPid = None \/ t.vmPid = 0 THEN "dead"
               ELSE IF KillZero(l, t) THEN PidString(t.vmPid) ELSE "threw",
     status |-> t.status]

\* quickCheck (list.ts:14-33); a vmPid that is absent or 0 is falsy
quickCheck(l, t) ==
    [name |-> t.name, cid |-> t.cid, ip |-> t.ipAddress, port |-> t.gatewayPort,
     vmPid |-> IF t.vmPid = None \/ t.vmPid = 0 THEN "dead"
               ELSE IF KillZero(l, t) THEN PidString(t.vmPid) ELSE "dead",
     status |-> t.status]

\* runList (list.ts:35-41): registry.tenants.map(quickCheck); an exception
\* thrown inside map rejects the whole result
runList(l) ==
    IF ~l.loadable THEN [returned |-> "err", entries |-> <<>>]
    ELSE LET es == [i \in DOMAIN l.tenants |-> quickCheck(l, l.tenants[i])]
         IN IF \E i \in DOMAIN es : es[i].vmPid = "threw"
            THEN [returned |-> "threw", entries |-> <<>>]
            ELSE [returned |-> "ok", entries |-> es]

\* a registry row as list reads it; own: the VM process runs under the
\* caller's uid
ListRow(name, vmPid, status, own) ==
    [Reserve(name, UidStart + (IF name = Names[1] THEN 0 ELSE 1),
             GatewayPortStart + (IF name = Names[1] THEN 0 ELSE 1))
        EXCEPT !.vmPid = vmPid, !.status = status] @@ [name |-> name, own |-> own]

ListRows ==
    {ListRow(n, pid, st, own) :
        n \in Tenants, pid \in {None, 0} \cup Pids,
        st \in {"active", "suspended"}, own \in BOOLEAN}

\* the registries list is run on: none, one or two tenants, in either order
ListRegistries ==
    {<<>>} \cup {<<r>> : r \in ListRows}
           \cup {<<r, q>> : r \in {x \in ListRows : x.status = "active"},
                            q \in {x \in ListRows : ~x.own}}

\* the operator runs lobster list
RunList ==
    /\ LET r == runList(listing)
       IN listing' = [listing EXCEPT !.returned = r.returned, !.entries = r.entries]
    /\ UNCHANGED exceptListing

\* a VM process exits
ProcessExits(pid) ==
    /\ pid \in listing.live
    /\ listing' = [listing EXCEPT !.live = @ \ {pid}, !.returned = "none", !.entries = <<>>]
    /\ UNCHANGED exceptListing

ListInit ==
    /\ FreshHost /\ NoScheduler /\ HostIdleBut("listing")
    /\ \E reg \in ListRegistries, live \in SUBSET Pids, root \in BOOLEAN,
          loadable \in BOOLEAN :
           /\ \A i, j \in DOMAIN reg : i # j => reg[i].name # reg[j].name
           /\ listing = [NoListing EXCEPT !.tenants = reg, !.live = live, !.root = root,
                                          !.loadable = loadable]

ListNext ==
    \/ RunList
    \/ \E pid \in Pids : ProcessExits(pid)

ListSpec == ListInit /\ [][ListNext]_hostVars

\* C27: list never fails on individual tenant probes: given a loadable
\* registry, runList returns exactly one entry per registry tenant, in
\* registry order, and a tenant whose vmPid is absent or whose process does
\* not exist is reported inline as dead instead of producing an error.
C27_ListNeverFails ==
    (listing.returned # "none" /\ listing.loadable) =>
        /\ listing.returned = "ok"
        /\ Len(listing.entries) = Len(listing.tenants)
        /\ \A i \in DOMAIN listing.tenants :
               LET t == listing.tenants[i]
                   e == listing.entries[i]
               IN /\ e.name = t.name
                  /\ e.status = t.status
                  /\ e.cid = t.cid /\ e.port = t.gatewayPort /\ e.ip = t.ipAddress
                  /\ (t.vmPid = None \/ t.vmPid \notin listing.live) => e.vmPid = "dead"
                  /\ e.vmPid # "dead" => e.vmPid = PidString(t.vmPid)

\* list has returned two entries: the first tenant's process is alive, the
\* second tenant's process does not exist and is listed as dead
C27_Witness ==
    /\ listing.returned = "ok"
    /\ Len(listing.entries) = 2
    /\ listing.tenants[1].vmPid \in listing.live
    /\ listing.entries[1].vmPid = PidString(listing.tenants[1].vmPid)
    /\ listing.tenants[2].vmPid \in Pids \ listing.live
    /\ listing.entries[2].vmPid = "dead"

\* ------------------------------------------------------ the LOBSTER chain
\* One iptables chain, a sequence of owner-match rules.  addFirewallBypass is
\* nginx.ts; the chain itself and the tenant rules belong to the network
\* driver (ensureFirewallChain, addTenantDrop, removeTenantDrop, addUidBypass).

\* most rules the network driver puts into the chain
MaxRules == 4

RootUid == 0
\* what `id -u www-data` prints
ProxyUid == 33
TenantUids == {UidStart, UidStart + 1}

Rule(uid, target) == [uid |-> uid, target |-> target]
ProxyBypass == Rule(ProxyUid, "RETURN")

HasRule(c, rule) == c.exists /\ \E i \in DOMAIN c.rules : c.rules[i] = rule

\* iptables -C LOBSTER <rule>: exit code 0 when the rule is in the chain
iptablesCheck(c, rule) == IF HasRule(c, rule) THEN 0 ELSE 1

\* iptables -I LOBSTER <pos> <rule> is refused when the chain does not exist
\* or pos lies more than one past its end
CanInsert(c, pos) == c.exists /\ pos <= Len(c.rules) + 1

iptablesInsert(c, pos, rule) ==
    SubSeq(c.rules, 1, pos - 1) \o <<rule>> \o SubSeq(c.rules, pos, Len(c.rules))

\* iptables -D LOBSTER <rule> removes the first rule that matches
iptablesDelete(rules, rule) ==
    IF \E i \in DOMAIN rules : rules[i] = rule
    THEN LET k == CHOOSE i \in DOMAIN rules :
                      /\ rules[i] = rule
                      /\ \A j \in 1..(i - 1) : rules[j] # rule
         IN SubSeq(rules, 1, k - 1) \o SubSeq(rules, k + 1, Len(rules))
    ELSE rules

BypassFailed(c) == [c EXCEPT !.returned = "err", !.last = "error"]

addFirewallBypass_Append(c, idOk, execOk) ==
    IF ~idOk
    THEN BypassFailed(c)
    ELSE IF iptablesCheck(c, ProxyBypass) # 0
         THEN IF execOk /\ c.exists
              THEN [c EXCEPT !.rules = Append(c.rules, ProxyBypass),
                             !.returned = "ok", !.last = "inserted",
                             !.insertedInto = c.rules]
              ELSE BypassFailed(c)
         ELSE [c EXCEPT !.returned = "ok", !.last = "present"]

\* addFirewallBypass: look the proxy's UID up, check for its RETURN rule,
\* insert it at position 2 when the check does not find it
addFirewallBypass(c, idOk, execOk) ==
    IF ~idOk
    THEN BypassFailed(c)
    ELSE IF iptablesCheck(c, ProxyBypass) # 0
         THEN IF execOk /\ CanInsert(c, 2)
              THEN [c EXCEPT !.rules = iptablesInsert(c, 2, ProxyBypass),
                             !.returned = "ok", !.last = "inserted",
                             !.insertedInto = c.rules]
              ELSE BypassFailed(c)
         ELSE [c EXCEPT !.returned = "ok", !.last = "present"]

AddFirewallBypass(idOk, execOk) ==
    /\ chain' = addFirewallBypass(chain, idOk, execOk)
    /\ UNCHANGED exceptChain

\* the chain is created with the bypass for root as its first rule
EnsureFirewallChain ==
    /\ ~chain.exists
    /\ chain' = [chain EXCEPT !.exists = TRUE, !.rules = <<Rule(RootUid, "RETURN")>>]
    /\ UNCHANGED exceptChain

AddTenantDrop(uid) ==
    /\ chain.exists
    /\ Len(chain.rules) < MaxRules
    /\ chain' = [chain EXCEPT !.rules = Append(@, Rule(uid, "DROP"))]
    /\ UNCHANGED exceptChain

RemoveTenantDrop(uid) ==
    /\ chain.exists
    /\ chain' = [chain EXCEPT !.rules = iptablesDelete(@, Rule(uid, "DROP"))]
    /\ UNCHANGED exceptChain

AddUidBypass(uid) ==
    /\ chain.exists
    /\ Len(chain.rules) < MaxRules
    /\ chain' = [chain EXCEPT !.rules = Append(@, Rule(uid, "RETURN"))]
    /\ UNCHANGED exceptChain

ChainInit ==
    /\ FreshHost /\ NoScheduler /\ HostIdleBut("chain")
    /\ chain = NoChain

ChainNext ==
    \/ \E idOk \in BOOLEAN, execOk \in BOOLEAN : AddFirewallBypass(idOk, execOk)
    \/ EnsureFirewallChain
    \/ \E uid \in TenantUids : AddTenantDrop(uid)
    \/ \E uid \in TenantUids : RemoveTenantDrop(uid)
    \/ \E uid \in TenantUids : AddUidBypass(uid)

ChainSpec == ChainInit /\ [][ChainNext]_hostVars

BypassAt == {i \in DOMAIN chain.rules : chain.rules[i] = ProxyBypass}
DropAt(rules) == {j \in DOMAIN rules : rules[j].target = "DROP"}

\* C28: in the LOBSTER chain the RETURN rule for the proxy's UID stands before
\* every tenant DROP rule, whatever the chain held when addFirewallBypass was
\* called; a call that returns ok leaves exactly one such rule, and a call
\* that finds the rule adds no second one.
C28_BypassPrecedesDrops ==
    /\ \A i \in BypassAt : \A j \in DropAt(chain.rules) : i < j
    /\ Cardinality(BypassAt) <= 1
    /\ chain.returned = "ok" => Cardinality(BypassAt) = 1

\* the rule was inserted into a chain that already held a tenant DROP rule,
\* addFirewallBypass has been called again, and a DROP rule is in the chain
C28_Witness ==
    /\ chain.last = "present"
    /\ DropAt(chain.insertedInto) # {}
    /\ DropAt(chain.rules) # {}
    /\ BypassAt = {2}

\* ------------------------------------------------------------ lobster logs
\* One runLogs call with its hold.  The clock counts minutes.  acquireHold and
\* releaseHold are calls to the in-guest agent, which keeps the lease: an
\* acquire it handles makes the hold last ttl from then on, a release it
\* handles ends it.

\* minutes the session's clock runs
MaxClock == 6

HoldTtl == 5
Keepalive == 2

\* what becomes of one request to the agent: handled and answered, lost on
\* the way (the call fails), or handled with the answer lost (the call fails)
RpcOutcomes == {"ok", "lost", "noreply"}
Reached(outcome) == outcome # "lost"

\* the agent holds the VM awake for the session
Held(ss) == ss.expiry # None /\ ss.clock < ss.expiry

acquireHold(ss, outcome) ==
    IF Reached(outcome) THEN [ss EXCEPT !.expiry = ss.clock + HoldTtl] ELSE ss

releaseHold(ss, outcome) ==
    IF Reached(outcome) THEN [ss EXCEPT !.expiry = None, !.released = TRUE] ELSE ss

\* loadConfig, loadRegistry or the tenant lookup fails: return 1 before
\* anything is sent
RunLogsRefused ==
    /\ session.pc = "idle"
    /\ session' = [session EXCEPT !.pc = "done", !.code = 1]
    /\ UNCHANGED exceptSession

\* up to the first acquire, which is awaited and may fail without effect
RunLogs(tty, outcome) ==
    /\ session.pc = "idle"
    /\ session' = [acquireHold(session, outcome) EXCEPT
                       !.tty = tty,
                       !.requested = @ \cup {"acquire-hold"},
                       !.pc = IF tty THEN "attached" ELSE "fetching",
                       !.keepalive = IF tty THEN session.clock + Keepalive ELSE None]
    /\ UNCHANGED exceptSession

\* not a TTY: one fetchLogs inside the try
FetchLogs(ok) ==
    /\ session.pc = "fetching"
    /\ session' = [session EXCEPT !.requested = @ \cup {"fetch-logs"},
                                  !.pc = "releasing",
                                  !.code = IF ok THEN 0 ELSE 1]
    /\ UNCHANGED exceptSession

\* TTY: the LogsApp fetches while it is rendered
Render ==
    /\ session.pc = "attached"
    /\ "fetch-logs" \notin session.requested
    /\ session' = [session EXCEPT !.requested = @ \cup {"fetch-logs"}]
    /\ UNCHANGED exceptSession

\* the interval fires: an acquire is sent and not awaited
KeepaliveFires ==
    /\ session.pc = "attached"
    /\ session.keepalive = session.clock
    /\ session' = [session EXCEPT !.inflight = @ + 1,
                                  !.keepalive = session.clock + Keepalive]
    /\ UNCHANGED exceptSession

\* a keepalive's acquire comes to its end, whatever runLogs does meanwhile
KeepaliveLands(outcome) ==
    /\ session.inflight > 0
    /\ session' = [acquireHold(session, outcome) EXCEPT !.inflight = @ - 1]
    /\ UNCHANGED exceptSession

\* waitUntilExit resolves: clearInterval, then on to the release
Detach ==
    /\ session.pc = "attached"
    /\ session' = [session EXCEPT !.keepalive = None, !.pc = "releasing", !.code = 0]
    /\ UNCHANGED exceptSession

\* the awaited release, which may fail without effect, and the return
Release(outcome) ==
    /\ session.pc = "releasing"
    /\ session' = [releaseHold(session, outcome) EXCEPT
                       !.requested = @ \cup {"release-hold"},
                       !.pc = "done"]
    /\ UNCHANGED exceptSession

\* a minute passes; a due interval fires first, and a request to the agent
\* is over well within the minute
Minute ==
    /\ session.pc # "idle"
    /\ session.clock < MaxClock
    /\ session.keepalive # session.clock
    /\ session.inflight = 0
    /\ session' = [session EXCEPT !.clock = @ + 1]
    /\ UNCHANGED exceptSession

SessionInit ==
    /\ FreshHost /\ NoScheduler /\ HostIdleBut("session")
    /\ session = NoSession

SessionNext ==
    \/ RunLogsRefused
    \/ \E tty \in BOOLEAN, outcome \in RpcOutcomes : RunLogs(tty, outcome)
    \/ \E ok \in BOOLEAN : FetchLogs(ok)
    \/ Render
    \/ KeepaliveFires
    \/ \E outcome \in RpcOutcomes : KeepaliveLands(outcome)
    \/ Detach
    \/ \E outcome \in RpcOutcomes : Release(outcome)
    \/ Minute

SessionSpec == SessionInit /\ [][SessionNext]_hostVars

\* C29: runLogs keeps a hold for the whole session: no logs are fetched
\* before acquire-hold was requested, a TTY session re-acquires at most
\* Keepalive (2 min, less than the 5 min TTL) after the last time, every
\* return that follows the acquire has sent release-hold with the exit code
\* the fetch alone decides, and once the command has returned after a release
\* the agent handled, the hold is no longer held.
C29_HoldForSession ==
    /\ "fetch-logs" \in session.requested => "acquire-hold" \in session.requested
    /\ Keepalive < HoldTtl
    /\ session.pc = "attached" =>
           /\ session.keepalive # None
           /\ session.keepalive >= session.clock
           /\ session.keepalive <= session.clock + Keepalive
    /\ (session.pc = "done" /\ "acquire-hold" \in session.requested) =>
           /\ "release-hold" \in session.requested
           /\ session.code \in {0, 1}
           /\ session.tty => session.code = 0
    /\ (session.pc = "done" /\ session.released) => ~Held(session)

\* ------------------------------------------------------------ waitForAgent
\* One call of waitForAgent(cid, port, timeoutMs).  The clock is Date.now()
\* in milliseconds, moved by the probes and the sleeps.

\* longest timeoutMs a call is given, in polls of pollMs
MaxWaitPolls == 5

PollMs == 500
ProbeTimeoutMs == 3000

Timeouts == {k * PollMs : k \in 0..MaxWaitPolls}
\* how long one socat probe can take: up to its timeout
Durations == {k * PollMs : k \in 0..(ProbeTimeoutMs \div PollMs)}

Elapsed(p) == p.clock - p.start

\* const start = Date.now()
WaitForAgent(timeoutMs) ==
    /\ probe.pc = "idle"
    /\ probe' = [probe EXCEPT !.pc = "test", !.timeoutMs = timeoutMs, !.start = probe.clock]
    /\ UNCHANGED exceptProbe

\* while (Date.now() - start < timeoutMs), and the throw after the loop
LoopTest ==
    /\ probe.pc = "test"
    /\ probe' = IF Elapsed(probe) < probe.timeoutMs
                THEN [probe EXCEPT !.pc = "probing"]
                ELSE [probe EXCEPT !.pc = "done", !.result = "VSOCK_CONNECT_FAILED"]
    /\ UNCHANGED exceptProbe

ProbeEnds_IgnoresExit(duration, exit) ==
    /\ probe.pc = "probing"
    /\ exit = 0 => duration < ProbeTimeoutMs
    /\ probe' = [probe EXCEPT !.clock = @ + duration, !.probes = @ + 1,
                              !.lastExit = exit, !.pc = "done", !.result = "ok"]
    /\ UNCHANGED exceptProbe

\* one socat probe under its 3 s timeout: exit code 0 returns, anything else
\* (an error result, another exit code, the timeout) goes on to the sleep
ProbeEnds(duration, exit) ==
    /\ probe.pc = "probing"
    /\ exit = 0 => duration < ProbeTimeoutMs
    /\ probe' = IF exit = 0
                THEN [probe EXCEPT !.clock = @ + duration, !.probes = @ + 1,
                                   !.lastExit = exit, !.pc = "done", !.result = "ok"]
                ELSE [probe EXCEPT !.clock = @ + duration, !.probes = @ + 1,
                                   !.lastExit = exit, !.pc = "sleeping"]
    /\ UNCHANGED exceptProbe

\* await Bun.sleep(pollMs)
Sleep ==
    /\ probe.pc = "sleeping"
    /\ probe' = [probe EXCEPT !.clock = @ + PollMs, !.pc = "test"]
    /\ UNCHANGED exceptProbe

ProbeInit ==
    /\ FreshHost /\ NoScheduler /\ HostIdleBut("probe")
    /\ probe = NoProbe

ProbeStep == \E duration \in Durations, exit \in {0, 1} : ProbeEnds(duration, exit)

ProbeNext ==
    \/ \E timeoutMs \in Timeouts : WaitForAgent(timeoutMs)
    \/ LoopTest
    \/ ProbeStep
    \/ Sleep

ProbeSpec == ProbeInit /\ [][ProbeNext]_hostVars

\* the async function runs on: the loop test and the sleep are taken, and a
\* probe ends, by itself or by its timeout
ProbeFairSpec ==
    /\ ProbeSpec
    /\ WF_hostVars(LoopTest)
    /\ WF_hostVars(ProbeStep)
    /\ WF_hostVars(Sleep)

\* C30: waitForAgent is a bounded poll that always terminates: it returns ok
\* at the first probe that exits 0 and never without one; otherwise it
\* returns VSOCK_CONNECT_FAILED, not before timeoutMs has elapsed and no later
\* than one probe timeout and one sleep after that; every started call returns.
C30_BoundedPoll ==
    /\ [](probe.result = "ok" => (probe.probes > 0 /\ probe.lastExit = 0))
    /\ [](probe.lastExit = 0 => (probe.pc = "done" /\ probe.result = "ok"))
    /\ [](probe.result = "VSOCK_CONNECT_FAILED" =>
              /\ probe.pc = "done"
              /\ probe.lastExit # 0
              /\ Elapsed(probe) >= probe.timeoutMs)
    /\ [](Elapsed(probe) <= probe.timeoutMs + ProbeTimeoutMs + PollMs)
    /\ ((probe.pc # "idle") ~> (probe.pc = "done"))

\* a call that saw two probes fail and the third succeed, after its timeout
\* had already passed
C30_Witness ==
    /\ probe.result = "ok"
    /\ probe.probes = 3
    /\ Elapsed(probe) > probe.timeoutMs

\* ======================================================= due cron wakes
\* the wake time of tenant n in registry reg has come by time t
Due(reg, n, t) ==
    /\ reg[n].status = "suspended"
    /\ HasWake(reg[n].suspendInfo)
    /\ reg[n].suspendInfo.nextWakeAtMs <= t

\* C31 (as claimed): whenever the running scheduler schedules the cron wake of
\* a tenant whose nextWakeAtMs is already past, a resume with trigger cron is
\* started at once (resume-start is emitted in the same step): at start-up
\* for the tenants found suspended, and right after a suspend completes.
C31_DueWakeResumes ==
    /\ \A n \in Tenants :
           Due(registry, n, now) =>
               \E i \in DOMAIN emitted :
                   emitted[i] = Event("resume-start", n, "cron", None)
    /\ [][\A n \in Tenants :
            (/\ running
             /\ SuspendCompleted(n, registry'[n].suspendInfo.nextWakeAtMs)
             /\ Due(registry', n, now)) => CronStart(n)]_vars

\* ====================================================== one timer a tenant
TimersOf(ts, n) == {x \in ts : x.name = n}

ResumeCompleted(n) ==
    \E i \in DOMAIN emitted' : emitted'[i].type = "resume-complete" /\ emitted'[i].tenant = n

\* C32: at any time at most one cron timer is armed per tenant, the one the
\* scheduler's map holds; and when a resume the scheduler started completes
\* (resume-complete) the tenant is left with no armed timer and no idle mark.
C32_OneTimer ==
    /\ [](\A n \in Tenants :
            /\ Cardinality(TimersOf(armed, n)) <= 1
            /\ \A x \in TimersOf(armed, n) : running => cronTimers[n] = x.id)
    /\ [][\A n \in Tenants :
            ResumeCompleted(n) =>
                /\ cronTimers'[n] = NoTimer
                /\ TimersOf(armed', n) = {}
                /\ idleSince'[n] = None]_vars

\* a resume has just completed for one tenant while the other tenant's cron
\* timer is armed
C32_Witness ==
    \E n \in Tenants :
        /\ \E i \in DOMAIN emitted :
               emitted[i].type = "resume-complete" /\ emitted[i].tenant = n
        /\ \E m \in Tenants \ {n} : TimersOf(armed, m) # {}

\* ================================================= what removeRoute's ok says
\* C33 (as claimed): when removeRoute(name) returns success the proxy has no
\* route lobster-<name>: only an already-missing route is turned into success,
\* so a caller that goes on after the success (evict, to delete the registry
\* row) never leaves the route installed.
C33_SuccessMeansGone ==
    (drv.call.driver = "removeRoute" /\ drv.call.result = "ok") =>
        drv.call.tenant \notin drv.routes

\* ================================================ the base config's routes
\* C34: loading the base proxy config replaces the proxy's configuration with
\* one that has no route: the step of init that loads it leaves no tenant
\* route installed whatever was installed before, no other step of init
\* touches the routes, so an init that completes on a host whose registry has
\* tenants leaves them unrouted until a route is added again.
C34_BaseConfigDropsRoutes ==
    /\ [][(setup.pc = CaddyConfigStep /\ setup'.returned = "ok") =>
              setup'.routes = {}]_hostVars
    /\ [][(setup.pc # 0 /\ setup'.returned # "ok") =>
              setup'.routes = setup.routes]_hostVars

\* init has completed on a host whose registry holds a tenant (whose route
\* was installed when the run began): the tenant has no route
C34_Witness ==
    /\ setup.pc = 0
    /\ setup.returned = "ok"
    /\ setup.registryFile.content.tenants = <<Names[1]>>
    /\ setup.routes = {}

\* ====================================================== the nginx tenant map
\* updateTenantMap (nginx.ts:89-113): the file is a sequence of lines, a line
\* a sequence of the pieces the template string puts together

Statuses == {"active", "suspended", "degraded", "initializing", "evicting"}

\* String(gatewayPort) inside the template
PortString(port) == <<"9000", "9001", "9002">>[port - GatewayPortStart + 1]

\* `${t.name}.lobster.local ${t.gatewayPort};`
MapLine(t) == <<t.name, ".lobster.local", " ", PortString(t.gatewayPort), ";">>

EmptyMap == <<<<"# empty">>>>

RECURSIVE MapLines(_)
MapLines(ts) ==
    IF ts = <<>> THEN <<>> ELSE <<MapLine(Head(ts))>> \o MapLines(Tail(ts))

IsActive(t) == t.status = "active"

\* mutant: every tenant of the registry gets its line
MapContent_AllTenants(tenants) ==
    LET activeTenants == tenants
    IN IF Len(activeTenants) = 0 THEN EmptyMap ELSE MapLines(activeTenants)

\* lines 90-99: the content written for registry.tenants
MapContent(tenants) ==
    LET activeTenants == SelectSeq(tenants, IsActive)
    IN IF Len(activeTenants) = 0 THEN EmptyMap ELSE MapLines(activeTenants)

MapRows ==
    {[name |-> n, status |-> st,
      gatewayPort |-> GatewayPortStart + (IF n = Names[1] THEN 0 ELSE 1)] :
        n \in Tenants, st \in Statuses}

\* the registries the map is written for: none, one or two tenants, in
\* either order
MapRegistries ==
    {<<>>} \cup {<<r>> : r \in MapRows}
           \cup {pair \in MapRows \X MapRows : pair[1].name # pair[2].name}

FreshMap ==
    [file |-> EmptyMap, tmp |-> <<>>, tenants |-> <<>>, returned |-> "none"]

\* the write of the temporary file and the mv over the map, either of which
\* can fail (EXEC_FAILED)
UpdateTenantMap(tenants, outcome) ==
    /\ tmap' = CASE outcome = "ok" ->
                      [tmap EXCEPT !.file = MapContent(tenants), !.tmp = <<>>,
                                   !.tenants = tenants, !.returned = "ok"]
                 [] outcome = "mv" ->
                      [tmap EXCEPT !.tmp = MapContent(tenants),
                                   !.tenants = tenants, !.returned = "EXEC_FAILED"]
                 [] OTHER ->
                      [tmap EXCEPT !.tenants = tenants, !.returned = "EXEC_FAILED"]
    /\ UNCHANGED exceptTmap

TmapInit ==
    /\ FreshHost /\ NoScheduler /\ HostIdleBut("tmap")
    /\ tmap = FreshMap

TmapNext ==
    \E tenants \in MapRegistries, outcome \in {"ok", "write", "mv"} :
        UpdateTenantMap(tenants, outcome)

TmapSpec == TmapInit /\ [][TmapNext]_hostVars

\* what nginx reads from the file: the lines that are an entry, as host and
\* port, in the order of the file
IsEntry(line) == Len(line) = 5 /\ line[5] = ";"
RECURSIVE Entries(_)
Entries(file) ==
    IF file = <<>> THEN <<>>
    ELSE (IF IsEntry(Head(file))
          THEN <<[host |-> <<Head(file)[1], Head(file)[2]>>, port |-> Head(file)[4]]>>
          ELSE <<>>) \o Entries(Tail(file))

EntryOf(t) == [host |-> <<t.name, ".lobster.local">>, port |-> PortString(t.gatewayPort)]

\* C35: after a successful updateTenantMap(registry) the map has the entry
\* '<name>.lobster.local <gatewayPort>;' of a tenant exactly when the tenant
\* is active, the entries stand in registry order, and with no active tenant
\* the file is the single line '# empty'; a failed call leaves the map as it
\* was.
C35_MapIsActiveTenants ==
    /\ [](tmap.returned = "ok" =>
            LET es == Entries(tmap.file)
                ts == tmap.tenants
            IN /\ \A i \in DOMAIN ts :
                      (\E k \in DOMAIN es : es[k] = EntryOf(ts[i])) <=> IsActive(ts[i])
               /\ \A k \in DOMAIN es : \E i \in DOMAIN ts : es[k] = EntryOf(ts[i])
               /\ \A k, l \in DOMAIN es :
                      k < l => \E i, j \in DOMAIN ts :
                                   i < j /\ es[k] = EntryOf(ts[i]) /\ es[l] = EntryOf(ts[j])
               /\ Len(es) = Len(tmap.file) \/ (es = <<>> /\ tmap.file = EmptyMap)
               /\ es = <<>> => tmap.file = EmptyMap)
    /\ [][tmap'.returned # "ok" => tmap'.file = tmap.file]_hostVars

\* the map written for a registry of bob, active, and alice, suspended: one
\* line, bob's
C35_Witness ==
    /\ tmap.returned = "ok"
    /\ Len(tmap.tenants) = 2
    /\ tmap.tenants[1].name = Names[2]
    /\ IsActive(tmap.tenants[1])
    /\ tmap.tenants[2].status = "suspended"
    /\ tmap.file = <<MapLine(tmap.tenants[1])>>

\* ===================================================== one gateway process
Launches == {"inject-secrets", "launch-openclaw"}

\* C36: in the agent at most one gateway process exists at any time, and it
\* is the one gatewayProcess refers to; a process is started only by a launch
\* (direct or through inject-secrets) that finds none running and a gateway
\* token injected; a direct launch while one is running starts nothing and
\* answers already-running; and when the process exits gatewayProcess is null
\* again, so that a new launch can start one.
C36_OneGateway ==
    /\ [](/\ Cardinality(agent.procs) <= 1
          /\ agent.procs \subseteq {agent.gatewayProcess})
    /\ [][agent'.procs \ agent.procs # {} =>
              /\ agent.procs = {}
              /\ agent.gatewayProcess = None
              /\ agent'.request.type \in Launches
              /\ Truthy(agent'.secrets["OPENCLAW_GATEWAY_TOKEN"])
              /\ Cardinality(agent'.procs) = 1]_hostVars
    /\ [][(agent'.request.type = "launch-openclaw" /\ agent.gatewayProcess # None) =>
              /\ agent'.procs = agent.procs
              /\ agent'.gatewayProcess = agent.gatewayProcess
              /\ agent'.response = "already-running"]_hostVars
    /\ [][(agent.procs \ agent'.procs # {} /\ agent'.poweroff # "done") =>
              agent'.gatewayProcess = None]_hostVars

\* the first gateway has exited, a second one was launched and runs, and a
\* launch sent while it runs was answered already-running
C36_Witness ==
    /\ agent.spawned = 2
    /\ agent.procs = {2}
    /\ agent.request.type = "launch-openclaw"
    /\ agent.response = "already-running"
====
